---- MODULE Spec2Model ----
(***************************************************************************)
(* Razor Indent Formatter: formatText (the formatter module) as a state    *)
(* machine.  A text is a sequence of characters; a character is a TLA+     *)
(* string.  Lexemes that every regular expression and every scanner of the *)
(* formatter treats as a unit (a whole tag, a keyword, a comment marker)   *)
(* are one character of the model.                                         *)
(***************************************************************************)
EXTENDS Integers, Sequences, FiniteSets, TLC

VARIABLES pc, input, options, env, scan, plan, blk, out, validation, result

vars == <<pc, input, options, env, scan, plan, blk, out, validation, result>>


(***************************************************************************)
(* Characters                                                              *)
(***************************************************************************)
SP == " "
TAB == "\t"
CR == "\r"
LF == "\n"

\* the template-literal quote
BACKTICK == "backtick"

\* the class \s of the regular expressions, and what trim()/trimStart() strip
IsSpace(ch) == ch \in {SP, TAB, CR, LF}

\* the characters that "." of a JavaScript regular expression does not match
IsLineTerminator(ch) == ch \in {CR, LF}

\* the class \w, by the first and last letter of a lexeme
IsWordChar(ch) == ch \in {"switch", "case", "default", "break", "x", "1"}

Max(a, b) == IF a > b THEN a ELSE b


(***************************************************************************)
(* String helpers of the JavaScript runtime                                *)
(***************************************************************************)
Slice(s, from) == IF from > Len(s) THEN <<>> ELSE SubSeq(s, from, Len(s))

RECURSIVE LeadingSpaces(_)
LeadingSpaces(s) ==
  IF s # <<>> /\ IsSpace(Head(s)) THEN 1 + LeadingSpaces(Tail(s)) ELSE 0

RECURSIVE TrailingSpaces(_)
TrailingSpaces(s) ==
  IF s # <<>> /\ IsSpace(s[Len(s)])
    THEN 1 + TrailingSpaces(SubSeq(s, 1, Len(s) - 1))
    ELSE 0

trimStart(s) == Slice(s, LeadingSpaces(s) + 1)

trim(s) ==
  LET t == trimStart(s) IN SubSeq(t, 1, Len(t) - TrailingSpaces(t))

StartsWith(s, p) == Len(s) >= Len(p) /\ SubSeq(s, 1, Len(p)) = p


RECURSIVE Repeat(_, _)
Repeat(ch, n) == IF n <= 0 THEN <<>> ELSE <<ch>> \o Repeat(ch, n - 1)

RECURSIVE Join(_, _)
Join(ls, sep) ==
  IF ls = <<>> THEN <<>>
  ELSE IF Len(ls) = 1 THEN ls[1]
  ELSE ls[1] \o sep \o Join(Tail(ls), sep)

RAZOR_TEXT == <<"@", ":">>

(***************************************************************************)
(* LineModel                                                               *)
(***************************************************************************)
\* options.indentSize is a JavaScript number: NaN, an infinity, or a finite
\* value num/den
Finite(num, den) == [kind |-> "finite", num |-> num, den |-> den]

NaN == [kind |-> "NaN", num |-> 0, den |-> 1]

PosInfinity == [kind |-> "Infinity", num |-> 1, den |-> 1]

NegInfinity == [kind |-> "-Infinity", num |-> -1, den |-> 1]

DEFAULT_INDENT == 2

\* the fallback taken for negative values only
sanitizeIndentSizeNegativeOnly(value) ==
  IF value.kind # "finite" \/ value.num < 0
    THEN DEFAULT_INDENT
    ELSE value.num \div value.den

sanitizeIndentSize(value) ==
  IF value.kind # "finite" \/ value.num <= 0
    THEN DEFAULT_INDENT
    ELSE value.num \div value.den

\* input.includes('\r\n')
HasCRLF(s) == \E k \in 1..(Len(s) - 1) : s[k] = CR /\ s[k + 1] = LF

\* the position of the first LF at or after from, 0 when there is none
NextLF(s, from) ==
  IF \E k \in from..Len(s) : s[k] = LF
    THEN CHOOSE k \in from..Len(s) : s[k] = LF /\ \A j \in from..(k - 1) : s[j] # LF
    ELSE 0

\* input.split(/\r\n|\n/), one line at a time
RECURSIVE Split(_, _)
Split(s, from) ==
  LET k == NextLF(s, from)
  IN IF k = 0 THEN <<SubSeq(s, from, Len(s))>>
     ELSE <<SubSeq(s, from, IF k - 1 >= from /\ s[k - 1] = CR THEN k - 2 ELSE k - 1)>>
          \o Split(s, k + 1)

\* the split that always reports the single-character convention
splitLinesAlwaysLF(in) == [lines |-> Split(in, 1), lineEnding |-> <<LF>>]

splitLines(in) ==
  [lines |-> Split(in, 1),
   lineEnding |-> IF HasCRLF(in) THEN <<CR, LF>> ELSE <<LF>>]

RECURSIVE countIndentWidth(_, _)
countIndentWidth(leading, indentSize) ==
  IF leading = <<>> THEN 0
  ELSE (IF Head(leading) = TAB THEN indentSize ELSE 1)
       + countIndentWidth(Tail(leading), indentSize)

\* analyzeLine on the line without its trailing whitespace
analyzeLineTrimmingEnd(line, indentSize) ==
  LET cut == SubSeq(line, 1, Len(line) - TrailingSpaces(line))
      n == LeadingSpaces(cut)
      leading == SubSeq(cut, 1, n)
      rest == Slice(cut, n + 1)
  IN IF \E k \in 1..Len(rest) : IsLineTerminator(rest[k])
       THEN [original |-> cut, leading |-> <<>>, rest |-> cut, leadingWidth |-> 0]
       ELSE [original |-> cut, leading |-> leading, rest |-> rest,
             leadingWidth |-> countIndentWidth(leading, indentSize)]

\* line.match(/^(\s*)(.*)$/): the match fails when a line terminator follows
\* the leading whitespace, and the whole line is then the rest
analyzeLine(line, indentSize) ==
  LET n == LeadingSpaces(line)
      leading == SubSeq(line, 1, n)
      rest == Slice(line, n + 1)
  IN IF \E k \in 1..Len(rest) : IsLineTerminator(rest[k])
       THEN [original |-> line, leading |-> <<>>, rest |-> line, leadingWidth |-> 0]
       ELSE [original |-> line, leading |-> leading, rest |-> rest,
             leadingWidth |-> countIndentWidth(leading, indentSize)]

(***************************************************************************)
(* LexicalScanners                                                         *)
(***************************************************************************)
VOID_TAGS ==
  {"area", "base", "br", "col", "embed", "hr", "img", "input", "link", "meta",
   "param", "source", "track", "wbr"}

RAW_TAGS == {"script", "style"}

HTML_COMMENT_OPEN == "<!--"

HTML_COMMENT_CLOSE == "-->"

\* the tags of the model's alphabet: what /<[^>]+>/g finds in a line
TagChars ==
  {"<div>", "</div>", "<text>", "</text>", "<script>", "</script>",
   "<style>", "</style>", "<textarea>", "</textarea>", "<br>", "<hr/>",
   "<span>", "</span>"}

\* raw.match(/^<\s*\/?\s*([a-zA-Z0-9:-]+)/)[1].toLowerCase()
TagName(ch) ==
  CASE ch \in {"<div>", "</div>"} -> "div"
    [] ch \in {"<text>", "</text>"} -> "text"
    [] ch \in {"<script>", "</script>"} -> "script"
    [] ch \in {"<style>", "</style>"} -> "style"
    [] ch \in {"<textarea>", "</textarea>"} -> "textarea"
    [] ch \in {"<span>", "</span>"} -> "span"
    [] ch = "<br>" -> "br"
    [] ch = "<hr/>" -> "hr"
    [] OTHER -> ""

\* /^<\s*\//.test(raw)
IsClosingTagChar(ch) ==
  ch \in {"</div>", "</text>", "</script>", "</style>", "</textarea>", "</span>"}

\* /\/>\s*$/.test(raw)
EndsWithSlashGt(ch) == ch = "<hr/>"

\* "<" + tagName as a prefix of a lexeme
OpenPrefixed(tagName) ==
  CASE tagName = "text" -> {"<text>", "<textarea>"}
    [] tagName = "script" -> {"<script>"}
    [] tagName = "style" -> {"<style>"}
    [] OTHER -> {}

\* "</" + tagName as a prefix of a lexeme
ClosePrefixed(tagName) ==
  CASE tagName = "text" -> {"</text>", "</textarea>"}
    [] tagName = "script" -> {"</script>"}
    [] tagName = "style" -> {"</style>"}
    [] OTHER -> {}

\* what the closing-tag expression built from tagName matches
ClosingTagOf(tagName) ==
  CASE tagName = "text" -> {"</text>"}
    [] tagName = "script" -> {"</script>"}
    [] tagName = "style" -> {"</style>"}
    [] OTHER -> {}

StartsWithLt(ch) == ch \in TagChars \/ ch = HTML_COMMENT_OPEN

RECURSIVE StripScan(_, _, _)
StripScan(line, cleaned, inComment) ==
  IF line = <<>> THEN [cleaned |-> cleaned, inComment |-> inComment]
  ELSE IF inComment
    THEN StripScan(Tail(line), cleaned, Head(line) # HTML_COMMENT_CLOSE)
  ELSE IF Head(line) = HTML_COMMENT_OPEN
    THEN StripScan(Tail(line), cleaned, TRUE)
  ELSE StripScan(Tail(line), Append(cleaned, Head(line)), FALSE)

stripHtmlComments(line, inComment) == StripScan(line, <<>>, inComment)

RECURSIVE extractTags(_)
extractTags(line) ==
  IF line = <<>> THEN <<>>
  ELSE IF Head(line) \in TagChars
    THEN <<[name |-> TagName(Head(line)),
            isClosing |-> IsClosingTagChar(Head(line)),
            isSelfClosing |-> EndsWithSlashGt(Head(line))
                              \/ TagName(Head(line)) \in VOID_TAGS]>>
         \o extractTags(Tail(line))
  ELSE extractTags(Tail(line))

\* a test that takes any closing tag for the closing tag of tagName
containsClosingTagOfAny(line, tagName) ==
  IF tagName = "" THEN FALSE
  ELSE \E k \in 1..Len(line) : IsClosingTagChar(line[k])

containsClosingTag(line, tagName) ==
  IF tagName = "" THEN FALSE
  ELSE \E k \in 1..Len(line) : line[k] \in ClosingTagOf(tagName)

\* TEXT_CLOSE_RE.test(trimmed)
hasTextCloseRe(trimmed) == \E k \in 1..Len(trimmed) : trimmed[k] = "</text>"

\* a count that stops at the first closing
countLeadingClosingsOnce(trimmed) ==
  IF trimmed # <<>> /\ (IsClosingTagChar(Head(trimmed)) \/ Head(trimmed) = "}")
    THEN 1
  ELSE IF Len(trimmed) >= 2 /\ trimmed[1] = "@" /\ trimmed[2] = "}"
    THEN 1
  ELSE 0

\* a count of the leading closing tags that leaves the braces out
RECURSIVE countLeadingClosingsOfTags(_)
countLeadingClosingsOfTags(trimmed) ==
  IF trimmed # <<>> /\ IsClosingTagChar(Head(trimmed))
    THEN 1 + countLeadingClosingsOfTags(trimStart(Tail(trimmed)))
  ELSE 0

RECURSIVE countLeadingClosings(_)
countLeadingClosings(trimmed) ==
  IF trimmed # <<>> /\ IsClosingTagChar(Head(trimmed))
    THEN 1 + countLeadingClosings(trimStart(Tail(trimmed)))
  ELSE IF trimmed # <<>> /\ Head(trimmed) = "}"
    THEN 1 + countLeadingClosings(trimStart(Tail(trimmed)))
  ELSE IF Len(trimmed) >= 2 /\ trimmed[1] = "@" /\ trimmed[2] = "}"
    THEN 1 + countLeadingClosings(trimStart(Slice(trimmed, 3)))
  ELSE 0

isHtmlLine(trimmed) ==
  IF trimmed # <<>> /\ StartsWithLt(Head(trimmed)) THEN TRUE
  ELSE IF StartsWith(trimmed, RAZOR_TEXT)
    THEN LET after == trimStart(Slice(trimmed, 3))
         IN after # <<>> /\ StartsWithLt(Head(after))
  ELSE FALSE

isLineOpeningTag(trimmed, tagName) ==
  IF trimmed # <<>> /\ Head(trimmed) \in OpenPrefixed(tagName) THEN TRUE
  ELSE IF StartsWith(trimmed, RAZOR_TEXT)
    THEN LET after == trimStart(Slice(trimmed, 3))
         IN after # <<>> /\ Head(after) \in OpenPrefixed(tagName)
  ELSE FALSE

isLineClosingTag(trimmed, tagName) ==
  IF trimmed # <<>> /\ Head(trimmed) \in ClosePrefixed(tagName) THEN TRUE
  ELSE IF StartsWith(trimmed, RAZOR_TEXT)
    THEN LET after == trimStart(Slice(trimmed, 3))
         IN after # <<>> /\ Head(after) \in ClosePrefixed(tagName)
  ELSE FALSE

RECURSIVE LeadingCloseBraces(_)
LeadingCloseBraces(s) ==
  IF s # <<>> /\ Head(s) = "}" THEN 1 + LeadingCloseBraces(Tail(s)) ELSE 0

countLeadingBraceClosings(trimmed) ==
  IF StartsWith(trimmed, RAZOR_TEXT)
    THEN LeadingCloseBraces(trimStart(Slice(trimmed, 3)))
    ELSE LeadingCloseBraces(trimmed)

\* the string literal the escape test of countBraces compares a character to
ESCAPE_LITERAL == "\\\\"

RECURSIVE BraceScan(_, _, _)
BraceScan(line, i, st) ==
  IF i > Len(line) THEN st
  ELSE
    LET char == line[i]
        next == IF i + 1 <= Len(line) THEN line[i + 1] ELSE ""
        quoted == st.inSingle \/ st.inDouble \/ st.inTemplate
    IN IF st.inBlockComment
         THEN IF char = "*" /\ next = "/"
                THEN BraceScan(line, i + 2, [st EXCEPT !.inBlockComment = FALSE])
                ELSE BraceScan(line, i + 1, st)
       ELSE IF ~quoted /\ char = "/" /\ next = "*"
         THEN BraceScan(line, i + 2, [st EXCEPT !.inBlockComment = TRUE])
       ELSE IF ~quoted /\ char = "/" /\ next = "/"
         THEN st
       ELSE IF st.escaped
         THEN BraceScan(line, i + 1, [st EXCEPT !.escaped = FALSE])
       ELSE IF char = ESCAPE_LITERAL /\ quoted
         THEN BraceScan(line, i + 1, [st EXCEPT !.escaped = TRUE])
       ELSE IF ~st.inDouble /\ ~st.inTemplate /\ char = "'"
         THEN BraceScan(line, i + 1, [st EXCEPT !.inSingle = ~st.inSingle])
       ELSE IF ~st.inSingle /\ ~st.inTemplate /\ char = "\""
         THEN BraceScan(line, i + 1, [st EXCEPT !.inDouble = ~st.inDouble])
       ELSE IF ~st.inSingle /\ ~st.inDouble /\ char = BACKTICK
         THEN BraceScan(line, i + 1, [st EXCEPT !.inTemplate = ~st.inTemplate])
       ELSE IF quoted
         THEN BraceScan(line, i + 1, st)
       ELSE IF char = "{"
         THEN BraceScan(line, i + 1, [st EXCEPT !.open = st.open + 1])
       ELSE IF char = "}"
         THEN BraceScan(line, i + 1, [st EXCEPT !.close = st.close + 1])
       ELSE BraceScan(line, i + 1, st)

\* a scan that starts every line outside a block comment
countBracesFromCode(line, inBlockComment) ==
  LET st == BraceScan(line, 1,
              [open |-> 0, close |-> 0, inBlockComment |-> FALSE,
               inSingle |-> FALSE, inDouble |-> FALSE, inTemplate |-> FALSE,
               escaped |-> FALSE])
  IN [open |-> st.open, close |-> st.close, inBlockComment |-> st.inBlockComment]

countBraces(line, inBlockComment) ==
  LET st == BraceScan(line, 1,
              [open |-> 0, close |-> 0, inBlockComment |-> inBlockComment,
               inSingle |-> FALSE, inDouble |-> FALSE, inTemplate |-> FALSE,
               escaped |-> FALSE])
  IN [open |-> st.open, close |-> st.close, inBlockComment |-> st.inBlockComment]

\* /^switch\s*\(/.test(code)
IsSwitchHead(code) ==
  /\ code # <<>>
  /\ Head(code) = "switch"
  /\ LET after == trimStart(Tail(code)) IN after # <<>> /\ Head(after) = "("

\* a test that knows the case labels only
IsCaseLabelCaseOnly(code) ==
  /\ code # <<>>
  /\ Head(code) = "case"
  /\ (Len(code) = 1 \/ ~IsWordChar(code[2]))

\* /^case\b/.test(code) || /^default\b/.test(code)
IsCaseLabel(code) ==
  /\ code # <<>>
  /\ Head(code) \in {"case", "default"}
  /\ (Len(code) = 1 \/ ~IsWordChar(code[2]))

\* /^break\b/.test(code)
IsBreakStatement(code) ==
  /\ code # <<>>
  /\ Head(code) = "break"
  /\ (Len(code) = 1 \/ ~IsWordChar(code[2]))

(***************************************************************************)
(* State of one call of formatText                                         *)
(***************************************************************************)
\* null in an Array<number | null> and in a number | null local
NULL_INDENT == -1

\* null of string | null
NO_TAG == ""

\* null of TextBlock | null
NO_BLOCK ==
  [startLine |-> -1, endLine |-> -1, parentLevel |-> 0, tagName |-> NO_TAG,
   skip |-> FALSE]

\* null of RawLineMeta | null
NO_META ==
  [present |-> FALSE, isRawBlock |-> FALSE, isCaseOrDefault |-> FALSE,
   isBreak |-> FALSE, isSwitchLine |-> FALSE]

RawLineMeta(isCaseOrDefault, isBreak, isSwitchLine) ==
  [present |-> TRUE, isRawBlock |-> TRUE, isCaseOrDefault |-> isCaseOrDefault,
   isBreak |-> isBreak, isSwitchLine |-> isSwitchLine]

NO_VALIDATION == [ok |-> FALSE, message |-> [text |-> "", lines |-> <<>>]]

NO_RESULT ==
  [returned |-> FALSE, output |-> <<>>, logs |-> <<>>, hasError |-> FALSE,
   error |-> [text |-> "", lines |-> <<>>]]

IdleBlock ==
  [b |-> 1, running |-> FALSE, lineIndex |-> 0, endLine |-> -1,
   isRawBlock |-> FALSE, baseIndent |-> 0,
   switchDepths |-> <<>>, level |-> 0, inBlockComment |-> FALSE,
   razorBraceDepth |-> 0, inRazorCodeBlock |-> FALSE,
   caseIndentDepth |-> NULL_INDENT, pendingSwitch |-> FALSE,
   razorTextGroupBaseLevel |-> NULL_INDENT]

\* formatText, up to the first iteration of the main loop
Start(in, opts) ==
  LET indentSize == sanitizeIndentSize(opts.indentSize)
      sl == splitLines(in)
      n == Len(sl.lines)
  IN [pc |-> "scan", input |-> in, options |-> opts,
      env |-> [indentSize |-> indentSize,
               adjustTextBlocks |-> opts.adjustTextBlocks,
               lines |-> sl.lines, lineEnding |-> sl.lineEnding,
               lineInfos |-> [k \in 1..n |-> analyzeLine(sl.lines[k], indentSize)]],
      scan |-> [i |-> 0, level |-> 0, inComment |-> FALSE, inRawTag |-> NO_TAG,
                inTextBlock |-> FALSE, currentTextBlock |-> NO_BLOCK,
                inRawBlock |-> FALSE, inBlockComment |-> FALSE,
                switchDepths |-> <<>>, caseIndentDepth |-> NULL_INDENT,
                pendingSwitch |-> FALSE],
      plan |-> [desiredIndents |-> [k \in 1..n |-> NULL_INDENT],
                indentAfterRazorPrefix |-> [k \in 1..n |-> FALSE],
                razorTextContentIndents |-> [k \in 1..n |-> 0],
                rawLineMeta |-> [k \in 1..n |-> NO_META],
                textBlocks |-> <<>>],
      blk |-> IdleBlock,
      out |-> [outputLines |-> <<>>, lines |-> <<>>, insertedBlankLines |-> FALSE,
               output |-> <<>>],
      validation |-> NO_VALIDATION,
      result |-> NO_RESULT]

(***************************************************************************)
(* StructureTracker: the main scan                                         *)
(***************************************************************************)
\* Math.max(0, x)
\* the level without Math.max(0, ...)
ClampLevelUnclamped(x) == x

ClampLevel(x) == Max(0, x)

Top(stack) == stack[Len(stack)]

\* a loop that also pops a top equal to the level
RECURSIVE PopSwitchDepthsAtTop(_, _)
PopSwitchDepthsAtTop(switchDepths, nextLevel) ==
  IF switchDepths # <<>> /\ nextLevel <= Top(switchDepths)
    THEN PopSwitchDepthsAtTop(SubSeq(switchDepths, 1, Len(switchDepths) - 1), nextLevel)
    ELSE switchDepths

\* while (switchDepths.length > 0 && nextLevel < top) switchDepths.pop()
RECURSIVE PopSwitchDepths(_, _)
PopSwitchDepths(switchDepths, nextLevel) ==
  IF switchDepths # <<>> /\ nextLevel < Top(switchDepths)
    THEN PopSwitchDepths(SubSeq(switchDepths, 1, Len(switchDepths) - 1), nextLevel)
    ELSE switchDepths

\* the switch bookkeeping that ends the processing of a line, in the main scan
\* and in the block pass
SwitchUpdate(sw, isSwitchLine, isCaseOrDefault, inSwitch, braceOpen, code, level, nextLevel) ==
  LET pushedHeader == isSwitchLine /\ braceOpen > 0
      pendingSwitchSetThisLine == isSwitchLine /\ braceOpen = 0
      depths1 == IF pushedHeader THEN Append(sw.switchDepths, nextLevel)
                 ELSE sw.switchDepths
      pending1 == IF isSwitchLine THEN ~pushedHeader ELSE sw.pendingSwitch
      pushedLater == pending1 /\ braceOpen > 0 /\ code # <<>> /\ Head(code) = "{"
      depths2 == IF pushedLater THEN Append(depths1, nextLevel) ELSE depths1
      pending2 == IF pushedLater THEN FALSE ELSE pending1
      pending3 == IF ~pendingSwitchSetThisLine /\ pending2 /\ Len(code) > 0
                     /\ Head(code) # "{"
                  THEN FALSE ELSE pending2
      case1 == IF inSwitch /\ isCaseOrDefault THEN level ELSE sw.caseIndentDepth
      depths3 == PopSwitchDepths(depths2, nextLevel)
      case2 == IF case1 # NULL_INDENT /\ nextLevel < case1 THEN NULL_INDENT ELSE case1
  IN [switchDepths |-> depths3, caseIndentDepth |-> case2, pendingSwitch |-> pending3]

\* the tag accumulation of the main scan over extractTags(cleanLine)
RECURSIVE CountTags(_, _)
CountTags(tags, acc) ==
  IF tags = <<>> THEN acc
  ELSE LET tag == Head(tags)
       IN IF tag.isClosing
            THEN CountTags(Tail(tags), [acc EXCEPT !.close = acc.close + 1])
          ELSE IF tag.isSelfClosing
            THEN CountTags(Tail(tags), acc)
          ELSE CountTags(Tail(tags),
                 [acc EXCEPT !.open = acc.open + 1,
                             !.inRawTag = IF tag.name \in RAW_TAGS THEN tag.name
                                          ELSE acc.inRawTag])

\* the code a line holds after its Razor prefix
CodeOf(trimmed) ==
  IF StartsWith(trimmed, RAZOR_TEXT) THEN trimStart(Slice(trimmed, 3))
  ELSE IF trimmed # <<>> /\ Head(trimmed) = "@" THEN <<>>
  ELSE trimmed

\* a capture that takes in the line that opens it
CaptureStartAtLine(trimmed, i, level, cur) ==
  LET mk(tagName) == [startLine |-> i, endLine |-> i,
                      parentLevel |-> Max(0, level - 1), tagName |-> tagName,
                      skip |-> FALSE]
      opens(tagName) == isLineOpeningTag(trimmed, tagName)
                        /\ ~isLineClosingTag(trimmed, tagName)
      c1 == IF opens("text") THEN mk("text") ELSE cur
      c2 == IF opens("script") THEN mk("script") ELSE c1
      c3 == IF opens("style") THEN mk("style") ELSE c2
  IN [inTextBlock |-> opens("text"),
      inRawBlock |-> opens("script") \/ opens("style"),
      currentTextBlock |-> c3]

\* the capture a line starts, if it opens a text, script or style tag
CaptureStart(trimmed, i, level, cur) ==
  LET mk(tagName) == [startLine |-> i + 1, endLine |-> i,
                      parentLevel |-> Max(0, level - 1), tagName |-> tagName,
                      skip |-> FALSE]
      opens(tagName) == isLineOpeningTag(trimmed, tagName)
                        /\ ~isLineClosingTag(trimmed, tagName)
      c1 == IF opens("text") THEN mk("text") ELSE cur
      c2 == IF opens("script") THEN mk("script") ELSE c1
      c3 == IF opens("style") THEN mk("style") ELSE c2
  IN [inTextBlock |-> opens("text"),
      inRawBlock |-> opens("script") \/ opens("style"),
      currentTextBlock |-> c3]

\* one iteration of the main loop of formatText
ScanLineOp(m) ==
  LET s == m.scan
      i == s.i
      line == m.env.lines[i + 1]
      info == m.env.lineInfos[i + 1]
      indentSize == m.env.indentSize
      trimmed == trimStart(info.rest)
      hasTextClose == hasTextCloseRe(trimmed)
      hasRawClose == s.inRawBlock /\ containsClosingTag(line, s.currentTextBlock.tagName)
      closeText == s.inTextBlock /\ hasTextClose
      blocks1 == IF closeText /\ s.currentTextBlock # NO_BLOCK
                   THEN Append(m.plan.textBlocks, [s.currentTextBlock EXCEPT !.endLine = i - 1])
                   ELSE m.plan.textBlocks
      cur1 == IF closeText THEN NO_BLOCK ELSE s.currentTextBlock
      inTextBlock1 == s.inTextBlock /\ ~hasTextClose
      closeRaw == s.inRawBlock /\ hasRawClose
      blocks2 == IF closeRaw /\ cur1 # NO_BLOCK
                   THEN Append(blocks1, [cur1 EXCEPT !.endLine = i - 1])
                   ELSE blocks1
      cur2 == IF closeRaw THEN NO_BLOCK ELSE cur1
      inRawBlock1 == s.inRawBlock /\ ~hasRawClose
  IN IF inTextBlock1 \/ inRawBlock1
       THEN [m EXCEPT !.scan.i = i + 1,
                      !.scan.inTextBlock = inTextBlock1,
                      !.scan.inRawBlock = inRawBlock1,
                      !.scan.currentTextBlock = cur2,
                      !.plan.textBlocks = blocks2,
                      !.plan.desiredIndents[i + 1] = NULL_INDENT]
       ELSE
         LET commentResult == stripHtmlComments(line, s.inComment)
             inComment == commentResult.inComment
             cleanLine == commentResult.cleaned
             leadingCloseCount0 == countLeadingClosings(trimmed)
             rawTagCloses == s.inRawTag # NO_TAG /\ containsClosingTag(cleanLine, s.inRawTag)
             leadingCloseCount ==
               IF rawTagCloses /\ leadingCloseCount0 = 0
                  /\ trimmed # <<>> /\ Head(trimmed) \in ClosePrefixed(s.inRawTag)
                 THEN 1 ELSE leadingCloseCount0
             scanned == s.inRawTag = NO_TAG /\ ~inComment
             tagCount ==
               IF scanned /\ isHtmlLine(trimmed)
                 THEN CountTags(extractTags(cleanLine),
                                [open |-> 0, close |-> 0, inRawTag |-> s.inRawTag])
                 ELSE [open |-> 0, close |-> 0, inRawTag |-> s.inRawTag]
             braceResult ==
               IF scanned THEN countBraces(info.rest, s.inBlockComment)
               ELSE [open |-> 0, close |-> 0, inBlockComment |-> s.inBlockComment]
             inRawTag == IF s.inRawTag # NO_TAG
                           THEN (IF rawTagCloses THEN NO_TAG ELSE s.inRawTag)
                           ELSE tagCount.inRawTag
             openCount == tagCount.open + braceResult.open
             closeCount == (IF rawTagCloses THEN 1 ELSE 0) + tagCount.close
                           + braceResult.close
             level == s.level
             effectiveLevel == ClampLevel(level - leadingCloseCount)
             isHtml == isHtmlLine(trimmed)
             codeTrimmed == CodeOf(trimmed)
             isSwitchLine == ~isHtml /\ IsSwitchHead(codeTrimmed)
             isCaseOrDefault == ~isHtml /\ IsCaseLabel(codeTrimmed)
             isClosingBraceLine == ~isHtml /\ codeTrimmed # <<>> /\ Head(codeTrimmed) = "}"
             inSwitch == s.switchDepths # <<>> /\ level >= Top(s.switchDepths)
             nextLevel == ClampLevel(level - closeCount + openCount)
             closesSwitch == isClosingBraceLine /\ s.switchDepths # <<>>
                             /\ nextLevel < Top(s.switchDepths)
             lineIndent ==
               effectiveLevel * indentSize
               + (IF inSwitch /\ s.caseIndentDepth # NULL_INDENT /\ ~isCaseOrDefault
                     /\ ~closesSwitch
                    THEN indentSize ELSE 0)
             sw == SwitchUpdate(s, isSwitchLine, isCaseOrDefault, inSwitch,
                                braceResult.open, codeTrimmed, level, nextLevel)
             cap == CaptureStart(trimmed, i, nextLevel, cur2)
         IN [m EXCEPT
               !.scan = [i |-> i + 1, level |-> nextLevel, inComment |-> inComment,
                         inRawTag |-> inRawTag,
                         inTextBlock |-> cap.inTextBlock,
                         currentTextBlock |-> cap.currentTextBlock,
                         inRawBlock |-> cap.inRawBlock,
                         inBlockComment |-> braceResult.inBlockComment,
                         switchDepths |-> sw.switchDepths,
                         caseIndentDepth |-> sw.caseIndentDepth,
                         pendingSwitch |-> sw.pendingSwitch],
               !.plan.textBlocks = blocks2,
               !.plan.desiredIndents[i + 1] = lineIndent]

\* formatText, between the main loop and the block pass: a <text> block that
\* is still open is recorded as skipped
EndScanOp(m) ==
  LET s == m.scan
      n == Len(m.env.lines)
      blocks == IF s.inTextBlock /\ s.currentTextBlock # NO_BLOCK
                  THEN Append(m.plan.textBlocks,
                              [s.currentTextBlock EXCEPT !.endLine = n - 1,
                                                         !.skip = TRUE])
                  ELSE m.plan.textBlocks
      cur == IF s.inTextBlock /\ s.currentTextBlock # NO_BLOCK
               THEN [s.currentTextBlock EXCEPT !.endLine = n - 1, !.skip = TRUE]
               ELSE s.currentTextBlock
  IN [m EXCEPT !.pc = IF m.env.adjustTextBlocks /\ blocks = <<>> THEN "render"
                      ELSE "blocks",
               !.scan.currentTextBlock = cur,
               !.plan.textBlocks = blocks]

(***************************************************************************)
(* BlockReindenter                                                         *)
(***************************************************************************)
\* a restore that resets the lines of a block to the margin
applySingleTextBlockOriginalIndentToMargin(block, desiredIndents, lineInfos) ==
  [k \in DOMAIN desiredIndents |->
     IF block.startLine <= k - 1 /\ k - 1 <= block.endLine
       THEN 0
       ELSE desiredIndents[k]]

\* desiredIndents[lineIndex] = lineInfos[lineIndex].leadingWidth over a block
applySingleTextBlockOriginalIndent(block, desiredIndents, lineInfos) ==
  [k \in DOMAIN desiredIndents |->
     IF block.startLine <= k - 1 /\ k - 1 <= block.endLine
       THEN lineInfos[k].leadingWidth
       ELSE desiredIndents[k]]

RECURSIVE applyTextBlockOriginalIndent(_, _, _)
applyTextBlockOriginalIndent(blocks, desiredIndents, lineInfos) ==
  IF blocks = <<>> THEN desiredIndents
  ELSE applyTextBlockOriginalIndent(Tail(blocks),
         applySingleTextBlockOriginalIndent(Head(blocks), desiredIndents, lineInfos),
         lineInfos)

RECURSIVE PreserveScan(_, _, _, _)
PreserveScan(block, lineInfos, lineIndex, st) ==
  IF lineIndex > block.endLine THEN FALSE
  ELSE
    LET rest == lineInfos[lineIndex + 1].rest
        trimmed == trimStart(rest)
    IN IF Len(trimmed) = 0
         THEN PreserveScan(block, lineInfos, lineIndex + 1, st)
       ELSE
         LET isRazorTextLine == StartsWith(trimmed, RAZOR_TEXT)
             isRazorDirectiveLine == Head(trimmed) = "@" /\ ~isRazorTextLine
             inRazorBlock == st.razorBraceDepth > 0 \/ isRazorDirectiveLine
             hasRazorDirective == st.hasRazorDirective \/ isRazorDirectiveLine
             hasNonRazorLine ==
               st.hasNonRazorLine
               \/ (~isRazorDirectiveLine /\ Head(trimmed) # "@" /\ ~inRazorBlock)
             braceResult == countBraces(rest, FALSE)
             razorBraceDepth ==
               IF inRazorBlock
                 THEN Max(0, st.razorBraceDepth + braceResult.open - braceResult.close)
                 ELSE st.razorBraceDepth
         IN IF hasRazorDirective /\ hasNonRazorLine THEN TRUE
            ELSE PreserveScan(block, lineInfos, lineIndex + 1,
                   [hasRazorDirective |-> hasRazorDirective,
                    hasNonRazorLine |-> hasNonRazorLine,
                    razorBraceDepth |-> razorBraceDepth])

\* a check that takes the directive line for granted
shouldPreserveRawBlockIndentAnyPlain(block, lineInfos) ==
  PreserveScan(block, lineInfos, block.startLine,
    [hasRazorDirective |-> TRUE, hasNonRazorLine |-> FALSE, razorBraceDepth |-> 0])

shouldPreserveRawBlockIndent(block, lineInfos) ==
  PreserveScan(block, lineInfos, block.startLine,
    [hasRazorDirective |-> FALSE, hasNonRazorLine |-> FALSE, razorBraceDepth |-> 0])

\* a base that puts every block one unit under its parent
BaseIndentAlwaysUnder(block, indentSize) ==
  block.parentLevel * indentSize + indentSize

\* a base one column, not one unit, under the parent
BaseIndentOneColumn(block, indentSize) ==
  block.parentLevel * indentSize
  + (IF block.tagName \in RAW_TAGS /\ block.parentLevel = 0 THEN 0 ELSE 1)

\* baseIndent of applyTextBlockIndentation
BaseIndent(block, indentSize) ==
  block.parentLevel * indentSize
  + (IF block.tagName \in RAW_TAGS /\ block.parentLevel = 0 THEN 0 ELSE indentSize)

\* the block pass is over when every block has been handled
AfterBlocks(m) ==
  IF ~m.blk.running /\ m.blk.b > Len(m.plan.textBlocks)
    THEN [m EXCEPT !.pc = "render"]
    ELSE m

\* applyTextBlockIndentation: the head of the loop over the blocks
StartBlockOp(m) ==
  LET block == m.plan.textBlocks[m.blk.b]
      isRawBlock == block.tagName \in RAW_TAGS
      original == applySingleTextBlockOriginalIndent(block, m.plan.desiredIndents,
                                                     m.env.lineInfos)
  IN IF block.skip \/ block.endLine < block.startLine
       THEN AfterBlocks([m EXCEPT !.plan.desiredIndents = original,
                                  !.blk.b = m.blk.b + 1])
     ELSE IF isRawBlock /\ shouldPreserveRawBlockIndent(block, m.env.lineInfos)
       THEN AfterBlocks([m EXCEPT !.plan.desiredIndents = original,
                                  !.blk.b = m.blk.b + 1])
     ELSE [m EXCEPT !.blk = [IdleBlock EXCEPT
                               !.b = m.blk.b, !.running = TRUE,
                               !.lineIndex = block.startLine,
                               !.endLine = block.endLine,
                               !.isRawBlock = isRawBlock,
                               !.baseIndent = BaseIndent(block, m.env.indentSize)]]

\* applyTextBlockIndentation: the loop exit of one block
NextBlockLine(m) ==
  IF m.blk.lineIndex + 1 > m.blk.endLine
    THEN AfterBlocks([m EXCEPT !.blk.running = FALSE, !.blk.b = m.blk.b + 1,
                               !.blk.lineIndex = m.blk.lineIndex + 1])
    ELSE [m EXCEPT !.blk.lineIndex = m.blk.lineIndex + 1]

\* a blank line that is put at the width of the block's current brace level
BlankBlockLineAtLevel(m, k) ==
  [m EXCEPT !.plan.desiredIndents[k] =
               m.blk.baseIndent + m.blk.level * m.env.indentSize,
            !.blk.razorTextGroupBaseLevel = NULL_INDENT,
            !.plan.rawLineMeta[k] =
               IF m.blk.isRawBlock THEN RawLineMeta(FALSE, FALSE, FALSE)
               ELSE m.plan.rawLineMeta[k]]

\* applyTextBlockIndentation: the line k of a block whose rest is empty
BlankBlockLine(m, k) ==
  [m EXCEPT !.plan.desiredIndents[k] = 0,
            !.blk.razorTextGroupBaseLevel = NULL_INDENT,
            !.plan.rawLineMeta[k] =
               IF m.blk.isRawBlock THEN RawLineMeta(FALSE, FALSE, FALSE)
               ELSE m.plan.rawLineMeta[k]]

\* applyTextBlockIndentation: one iteration of the loop over a block's lines
BlockLineOp(m) ==
  LET c == m.blk
      lineIndex == c.lineIndex
      k == lineIndex + 1
      indentSize == m.env.indentSize
      rest == m.env.lineInfos[k].rest
      isRawBlock == c.isRawBlock
  IN IF Len(rest) = 0
       THEN NextBlockLine(BlankBlockLine(m, k))
     ELSE
       LET trimmed == trimStart(rest)
           leadingCloseCount == countLeadingBraceClosings(trimmed)
           level == c.level
           effectiveLevel == ClampLevel(level - (IF leadingCloseCount > 0 THEN 1 ELSE 0))
           isRazorLine == trimmed # <<>> /\ Head(trimmed) = "@"
           isRazorTextLine == StartsWith(trimmed, RAZOR_TEXT)
           isRazorDirectiveLine == isRazorLine /\ ~isRazorTextLine
           lineInRazorBlock == isRawBlock /\ (c.inRazorCodeBlock \/ isRazorDirectiveLine)
           jsTrimmed == CodeOf(trimmed)
           isSwitchLine == isRawBlock /\ IsSwitchHead(jsTrimmed)
           isCaseOrDefault == isRawBlock /\ IsCaseLabel(jsTrimmed)
           isBreakLine == isRawBlock /\ IsBreakStatement(jsTrimmed)
           isClosingBraceLine == isRawBlock /\ jsTrimmed # <<>> /\ Head(jsTrimmed) = "}"
           inSwitch == isRawBlock /\ c.switchDepths # <<>> /\ level >= Top(c.switchDepths)
           braceResult == countBraces(rest, c.inBlockComment)
           nextLevel == ClampLevel(level + braceResult.open - braceResult.close)
           closesSwitch == isClosingBraceLine /\ c.switchDepths # <<>>
                           /\ nextLevel < Top(c.switchDepths)
           switchExtra == inSwitch /\ c.caseIndentDepth # NULL_INDENT
                          /\ ~isCaseOrDefault /\ ~closesSwitch
           groupBase == IF c.razorTextGroupBaseLevel = NULL_INDENT
                          THEN effectiveLevel ELSE c.razorTextGroupBaseLevel
           isGroupLine == isRawBlock /\ isRazorTextLine
           lineIndent ==
             IF isGroupLine THEN c.baseIndent + groupBase * indentSize
             ELSE c.baseIndent + effectiveLevel * indentSize
                  + (IF switchExtra THEN indentSize ELSE 0)
           contentIndent ==
             Max(0, (effectiveLevel - groupBase) * indentSize)
             + (IF switchExtra THEN indentSize ELSE 0)
           razorBraceDepth ==
             IF lineInRazorBlock
               THEN Max(0, c.razorBraceDepth + braceResult.open - braceResult.close)
               ELSE c.razorBraceDepth
           sw == SwitchUpdate(c, isSwitchLine, isCaseOrDefault, inSwitch,
                              braceResult.open, jsTrimmed, level, nextLevel)
       IN NextBlockLine(
            [m EXCEPT
               !.plan.desiredIndents[k] = lineIndent,
               !.plan.indentAfterRazorPrefix[k] =
                  IF isGroupLine THEN TRUE ELSE m.plan.indentAfterRazorPrefix[k],
               !.plan.razorTextContentIndents[k] =
                  IF isGroupLine THEN contentIndent
                  ELSE m.plan.razorTextContentIndents[k],
               !.plan.rawLineMeta[k] =
                  IF isRawBlock
                    THEN RawLineMeta(inSwitch /\ isCaseOrDefault,
                                     inSwitch /\ isBreakLine,
                                     inSwitch /\ isSwitchLine)
                    ELSE m.plan.rawLineMeta[k],
               !.blk.razorTextGroupBaseLevel =
                  IF isGroupLine THEN groupBase
                  ELSE IF isRawBlock THEN NULL_INDENT
                  ELSE c.razorTextGroupBaseLevel,
               !.blk.inBlockComment = braceResult.inBlockComment,
               !.blk.razorBraceDepth = razorBraceDepth,
               !.blk.inRazorCodeBlock =
                  IF lineInRazorBlock THEN razorBraceDepth > 0
                  ELSE c.inRazorCodeBlock,
               !.blk.switchDepths = sw.switchDepths,
               !.blk.caseIndentDepth = sw.caseIndentDepth,
               !.blk.pendingSwitch = sw.pendingSwitch,
               !.blk.level = nextLevel])

\* formatText with adjustTextBlocks = false
RestoreBlocksOp(m) ==
  [m EXCEPT !.pc = "render",
            !.plan.desiredIndents =
               applyTextBlockOriginalIndent(m.plan.textBlocks, m.plan.desiredIndents,
                                            m.env.lineInfos)]

(***************************************************************************)
(* Rendering                                                               *)
(***************************************************************************)
\* line.match(/^switch\s*\((.*)\)\s*\{\s*$/): the inner text of the header when
\* the line matches, and whether it matches
SwitchHeaderMatch(line) ==
  IF ~IsSwitchHead(line) THEN [matches |-> FALSE, inner |-> <<>>]
  ELSE
    LET p == 2 + LeadingSpaces(Tail(line))
        u == SubSeq(line, 1, Len(line) - TrailingSpaces(line))
        v0 == SubSeq(u, 1, Len(u) - 1)
        v == SubSeq(v0, 1, Len(v0) - TrailingSpaces(v0))
        q == Len(v)
        inner == SubSeq(line, p + 1, q - 1)
    IN IF /\ u # <<>> /\ u[Len(u)] = "{"
          /\ q > p /\ v[q] = ")"
          /\ \A k \in 1..Len(inner) : ~IsLineTerminator(inner[k])
         THEN [matches |-> TRUE, inner |-> inner]
         ELSE [matches |-> FALSE, inner |-> <<>>]

\* 'switch (' + inner + ') {'
SwitchHeader(inner) == <<"switch", SP, "(">> \o trim(inner) \o <<")", SP, "{">>

formatRawLineContent(rest) ==
  LET switchMatch == SwitchHeaderMatch(trimStart(rest))
  IN IF switchMatch.matches THEN SwitchHeader(switchMatch.inner) ELSE rest

\* a rendering with half the width
makeIndentedLineHalfWidth(rest, indentWidth) ==
  IF indentWidth <= 0 THEN rest ELSE Repeat(SP, indentWidth \div 2) \o rest

makeIndentedLine(rest, indentWidth) ==
  IF indentWidth <= 0 THEN rest ELSE Repeat(SP, indentWidth) \o rest

\* a rendering of the text-output lines that leaves the prefix out
makeRazorTextIndentedLineWithoutPrefix(rest, indentWidth, contentIndentWidth) ==
  makeIndentedLine(IF StartsWith(rest, RAZOR_TEXT) THEN trimStart(Slice(rest, 3))
                   ELSE rest,
                   indentWidth + contentIndentWidth)

\* rest.match(/^@:([\s]*)(.*)$/)
makeRazorTextIndentedLine(rest, indentWidth, contentIndentWidth) ==
  LET content == IF StartsWith(rest, RAZOR_TEXT) THEN trimStart(Slice(rest, 3))
                 ELSE <<>>
      matches == StartsWith(rest, RAZOR_TEXT)
                 /\ \A k \in 1..Len(content) : ~IsLineTerminator(content[k])
      lineIndent == IF indentWidth > 0 THEN Repeat(SP, indentWidth) ELSE <<>>
  IN IF ~matches THEN makeIndentedLine(rest, indentWidth)
     ELSE IF Len(content) = 0 THEN lineIndent \o RAZOR_TEXT
     ELSE lineIndent \o RAZOR_TEXT \o <<SP>> \o Repeat(SP, contentIndentWidth)
          \o trimStart(content)

\* the line formatText renders for one index
RenderLine(m, k, desired) ==
  LET rest0 == m.env.lineInfos[k].rest
      rest == IF m.plan.rawLineMeta[k].isRawBlock /\ ~m.plan.indentAfterRazorPrefix[k]
                THEN formatRawLineContent(rest0) ELSE rest0
  IN IF m.plan.indentAfterRazorPrefix[k]
       THEN makeRazorTextIndentedLine(rest, desired, m.plan.razorTextContentIndents[k])
       ELSE makeIndentedLine(rest, desired)

\* formatText: the fallback of the unresolved entries, then the rendering
RenderOp(m) ==
  LET n == Len(m.env.lines)
      resolved == [k \in 1..n |->
                     IF m.plan.desiredIndents[k] = NULL_INDENT
                       THEN m.env.lineInfos[k].leadingWidth
                       ELSE m.plan.desiredIndents[k]]
  IN [m EXCEPT !.pc = "insert",
               !.plan.desiredIndents = resolved,
               !.out.outputLines =
                  [k \in 1..n |-> RenderLine([m EXCEPT !.plan.desiredIndents = resolved],
                                             k, resolved[k])]]

(***************************************************************************)
(* SwitchCaseLayouter                                                      *)
(***************************************************************************)
\* trimmedLine.length === 0 || trimmedLine === '@:'
IsBlankOrBarePrefix(line) == LET t == trim(line) IN t = <<>> \/ t = RAZOR_TEXT

\* a separator that forgets the leading whitespace of the label line
SeparatorAtMargin(line) ==
  IF StartsWith(trimStart(line), RAZOR_TEXT) THEN RAZOR_TEXT ELSE <<>>

\* the separator pushed before a case/default line
Separator(line) ==
  LET n == LeadingSpaces(line)
  IN IF StartsWith(Slice(line, n + 1), RAZOR_TEXT)
       THEN SubSeq(line, 1, n) \o RAZOR_TEXT
       ELSE <<>>

\* the walk that forgets that the preceding line was blank
RECURSIVE InsertScanIgnoringBlank(_, _, _, _)
InsertScanIgnoringBlank(lines, rawLineMeta, i, st) ==
  IF i > Len(lines) THEN st
  ELSE
    LET meta == rawLineMeta[i]
    IN IF ~meta.present \/ ~meta.isRawBlock
         THEN InsertScanIgnoringBlank(lines, rawLineMeta, i + 1,
                [st EXCEPT !.inRaw = FALSE, !.prevRawBreak = FALSE,
                           !.prevRawLineBlank = FALSE,
                           !.result = Append(st.result, lines[i])])
       ELSE
         LET prevRawBreak == IF ~st.inRaw THEN FALSE ELSE st.prevRawBreak
             insert == meta.isCaseOrDefault /\ prevRawBreak
             isBlank == IsBlankOrBarePrefix(lines[i])
         IN InsertScanIgnoringBlank(lines, rawLineMeta, i + 1,
              [result |-> (IF insert THEN Append(st.result, Separator(lines[i]))
                           ELSE st.result) \o <<lines[i]>>,
               insertedBlankLines |-> st.insertedBlankLines \/ insert,
               inRaw |-> TRUE,
               prevRawLineBlank |-> isBlank,
               prevRawBreak |-> IF ~isBlank THEN meta.isBreak ELSE prevRawBreak])

\* the walk that keeps its break and blank tracking over the lines outside
\* the script and style blocks
RECURSIVE InsertScanKeepingTrack(_, _, _, _)
InsertScanKeepingTrack(lines, rawLineMeta, i, st) ==
  IF i > Len(lines) THEN st
  ELSE
    LET meta == rawLineMeta[i]
    IN IF ~meta.present \/ ~meta.isRawBlock
         THEN InsertScanKeepingTrack(lines, rawLineMeta, i + 1,
                [st EXCEPT !.result = Append(st.result, lines[i])])
       ELSE
         LET insert == meta.isCaseOrDefault /\ st.prevRawBreak /\ ~st.prevRawLineBlank
             isBlank == IsBlankOrBarePrefix(lines[i])
         IN InsertScanKeepingTrack(lines, rawLineMeta, i + 1,
              [result |-> (IF insert THEN Append(st.result, Separator(lines[i]))
                           ELSE st.result) \o <<lines[i]>>,
               insertedBlankLines |-> st.insertedBlankLines \/ insert,
               inRaw |-> TRUE,
               prevRawLineBlank |-> isBlank,
               prevRawBreak |-> IF ~isBlank THEN meta.isBreak ELSE st.prevRawBreak])

RECURSIVE InsertScan(_, _, _, _)
InsertScan(lines, rawLineMeta, i, st) ==
  IF i > Len(lines) THEN st
  ELSE
    LET meta == rawLineMeta[i]
    IN IF ~meta.present \/ ~meta.isRawBlock
         THEN InsertScan(lines, rawLineMeta, i + 1,
                [st EXCEPT !.inRaw = FALSE, !.prevRawBreak = FALSE,
                           !.prevRawLineBlank = FALSE,
                           !.result = Append(st.result, lines[i])])
       ELSE
         LET prevRawBreak == IF ~st.inRaw THEN FALSE ELSE st.prevRawBreak
             prevRawLineBlank == IF ~st.inRaw THEN FALSE ELSE st.prevRawLineBlank
             insert == meta.isCaseOrDefault /\ prevRawBreak /\ ~prevRawLineBlank
             isBlank == IsBlankOrBarePrefix(lines[i])
         IN InsertScan(lines, rawLineMeta, i + 1,
              [result |-> (IF insert THEN Append(st.result, Separator(lines[i]))
                           ELSE st.result) \o <<lines[i]>>,
               insertedBlankLines |-> st.insertedBlankLines \/ insert,
               inRaw |-> TRUE,
               prevRawLineBlank |-> isBlank,
               prevRawBreak |-> IF ~isBlank THEN meta.isBreak ELSE prevRawBreak])

\* the insertion that does not ask for a break before the label
insertSwitchBlankLinesEveryLabel(lines, rawLineMeta) ==
  LET st == InsertScan(lines,
              [k \in 1..Len(rawLineMeta) |-> [rawLineMeta[k] EXCEPT !.isBreak = TRUE]],
              1,
              [result |-> <<>>, insertedBlankLines |-> FALSE, inRaw |-> FALSE,
               prevRawBreak |-> FALSE, prevRawLineBlank |-> FALSE])
  IN [lines |-> st.result, insertedBlankLines |-> st.insertedBlankLines]

insertSwitchBlankLines(lines, rawLineMeta) ==
  LET st == InsertScan(lines, rawLineMeta, 1,
              [result |-> <<>>, insertedBlankLines |-> FALSE, inRaw |-> FALSE,
               prevRawBreak |-> FALSE, prevRawLineBlank |-> FALSE])
  IN [lines |-> st.result, insertedBlankLines |-> st.insertedBlankLines]

\* formatText: the switch spacing and the joined output
InsertSwitchOp(m) ==
  LET switchSpacing == insertSwitchBlankLines(m.out.outputLines, m.plan.rawLineMeta)
  IN [m EXCEPT !.pc = "validate",
               !.out.lines = switchSpacing.lines,
               !.out.insertedBlankLines = switchSpacing.insertedBlankLines,
               !.out.output = Join(switchSpacing.lines, m.env.lineEnding)]

(***************************************************************************)
(* OutputValidator                                                         *)
(***************************************************************************)
normalizeSwitchSpacing(line) ==
  LET match == SwitchHeaderMatch(line)
  IN IF match.matches THEN SwitchHeader(match.inner) ELSE line

normalizeForValidation(line) ==
  LET stripped == trimStart(line)
      normalized == IF StartsWith(stripped, RAZOR_TEXT)
                      THEN RAZOR_TEXT \o trimStart(Slice(stripped, 3))
                      ELSE stripped
  IN normalizeSwitchSpacing(normalized)

NO_MESSAGE == [text |-> "", lines |-> <<>>]

LINE_COUNT_CHANGED == [text |-> "Validation failed: line count changed.", lines |-> <<>>]

\* a message that numbers the lines from 0
ContentChangedFromZero(changedLines) ==
  [text |-> "Validation failed: non-indentation content changed on line(s) .",
   lines |-> [j \in 1..Len(changedLines) |-> changedLines[j] - 1]]

ContentChanged(changedLines) ==
  [text |-> "Validation failed: non-indentation content changed on line(s) .",
   lines |-> changedLines]

\* the lockstep walk of validateOutput; indices are those of the source
RECURSIVE ValidateWalk(_, _, _, _, _, _)
ValidateWalk(originalLines, outputLines, allow, originalIndex, outputIndex, changedLines) ==
  IF ~(originalIndex < Len(originalLines) /\ outputIndex < Len(outputLines))
    THEN [originalIndex |-> originalIndex, outputIndex |-> outputIndex,
          changedLines |-> changedLines]
  ELSE
    LET outputLine == outputLines[outputIndex + 1]
        originalLine == originalLines[originalIndex + 1]
    IN IF allow /\ IsBlankOrBarePrefix(outputLine)
         THEN IF IsBlankOrBarePrefix(originalLine)
                THEN ValidateWalk(originalLines, outputLines, allow,
                                  originalIndex + 1, outputIndex + 1, changedLines)
                ELSE ValidateWalk(originalLines, outputLines, allow,
                                  originalIndex, outputIndex + 1, changedLines)
       ELSE ValidateWalk(originalLines, outputLines, allow,
              originalIndex + 1, outputIndex + 1,
              IF normalizeForValidation(originalLine) # normalizeForValidation(outputLine)
                THEN Append(changedLines, originalIndex + 1)
                ELSE changedLines)

validateOutput(lineInfos, outputLines, allowBlankLineInsert) ==
  LET originalLines == [k \in 1..Len(lineInfos) |-> lineInfos[k].original]
      walk == ValidateWalk(originalLines, outputLines, allowBlankLineInsert, 0, 0, <<>>)
      unmatched == [k \in 1..(Len(originalLines) - walk.originalIndex) |->
                      walk.originalIndex + k]
      changed1 == walk.changedLines \o unmatched
      trailing == \E k \in (walk.outputIndex + 1)..Len(outputLines) :
                     ~IsBlankOrBarePrefix(outputLines[k])
      changed2 == IF allowBlankLineInsert /\ trailing
                    THEN Append(changed1, Len(originalLines)) ELSE changed1
  IN IF ~allowBlankLineInsert /\ Len(originalLines) # Len(outputLines)
       THEN [ok |-> FALSE, message |-> LINE_COUNT_CHANGED]
     ELSE IF ~allowBlankLineInsert /\ walk.outputIndex < Len(outputLines)
       THEN [ok |-> FALSE, message |-> LINE_COUNT_CHANGED]
     ELSE IF Len(changed2) > 0
       THEN [ok |-> FALSE, message |-> ContentChanged(changed2)]
     ELSE [ok |-> TRUE, message |-> NO_MESSAGE]

\* formatText: the call of validateOutput
ValidateOp(m) ==
  [m EXCEPT !.pc = "return",
            !.validation = validateOutput(m.env.lineInfos, m.out.lines,
                                          m.out.insertedBlankLines)]

VALIDATION_OK_LOG ==
  [text |-> "Validation ok: non-leading content unchanged.", line |-> 0,
   before |-> 0, after |-> 0]

NO_CHANGES_LOG ==
  [text |-> "No indentation changes detected.", line |-> 0, before |-> 0, after |-> 0]

\* the record 'Line n: before -> after'
LineLog(n, before, after) ==
  [text |-> "Line : -> ", line |-> n, before |-> before, after |-> after]

\* before < after
WidthChangedWhenGrown(before, after) == before < after

\* before !== after
WidthChanged(before, after) == before # after

RECURSIVE LineLogs(_, _, _)
LineLogs(lineInfos, desiredIndents, i) ==
  IF i >= Len(lineInfos) THEN <<>>
  ELSE
    LET before == lineInfos[i + 1].leadingWidth
        after == IF desiredIndents[i + 1] = NULL_INDENT THEN before
                 ELSE desiredIndents[i + 1]
    IN (IF WidthChanged(before, after) THEN <<LineLog(i + 1, before, after)>> ELSE <<>>)
       \o LineLogs(lineInfos, desiredIndents, i + 1)

\* the return that keeps the computed output when validation fails
ReturnOpKeepingOutput(m) ==
  IF ~m.validation.ok
    THEN [m EXCEPT !.pc = "done",
                   !.result = [returned |-> TRUE, output |-> m.out.output,
                               logs |-> <<>>, hasError |-> TRUE,
                               error |-> m.validation.message]]
    ELSE
      [m EXCEPT !.pc = "done",
                !.result = [returned |-> TRUE, output |-> m.out.output,
                            logs |-> <<VALIDATION_OK_LOG>>
                                     \o LineLogs(m.env.lineInfos,
                                                 m.plan.desiredIndents, 0),
                            hasError |-> FALSE, error |-> NO_MESSAGE]]

\* formatText: the result it returns
ReturnOp(m) ==
  IF ~m.validation.ok
    THEN [m EXCEPT !.pc = "done",
                   !.result = [returned |-> TRUE, output |-> m.input, logs |-> <<>>,
                               hasError |-> TRUE, error |-> m.validation.message]]
    ELSE
      LET logs1 == <<VALIDATION_OK_LOG>>
                   \o LineLogs(m.env.lineInfos, m.plan.desiredIndents, 0)
          logs == IF Len(logs1) = 0 THEN Append(logs1, NO_CHANGES_LOG) ELSE logs1
      IN [m EXCEPT !.pc = "done",
                   !.result = [returned |-> TRUE, output |-> m.out.output,
                               logs |-> logs, hasError |-> FALSE,
                               error |-> NO_MESSAGE]]

(***************************************************************************)
(* formatText as a function                                                *)
(***************************************************************************)
StepOp(m) ==
  CASE m.pc = "scan" /\ m.scan.i < Len(m.env.lines) -> ScanLineOp(m)
    [] m.pc = "scan" /\ m.scan.i >= Len(m.env.lines) -> EndScanOp(m)
    [] m.pc = "blocks" /\ ~m.env.adjustTextBlocks -> RestoreBlocksOp(m)
    [] m.pc = "blocks" /\ m.env.adjustTextBlocks /\ m.blk.running -> BlockLineOp(m)
    [] m.pc = "blocks" /\ m.env.adjustTextBlocks /\ ~m.blk.running -> StartBlockOp(m)
    [] m.pc = "render" -> RenderOp(m)
    [] m.pc = "insert" -> InsertSwitchOp(m)
    [] m.pc = "validate" -> ValidateOp(m)
    [] m.pc = "return" -> ReturnOp(m)
    [] OTHER -> m

RECURSIVE Run(_)
Run(m) == IF m.pc = "done" THEN m ELSE Run(StepOp(m))

formatText(in, opts) == Run(Start(in, opts)).result

(***************************************************************************)
(* Inputs                                                                  *)
(***************************************************************************)
\* the number of fragments a document is made of
MaxFrags == 3

RECURSIVE Flatten(_)
Flatten(frags) == IF frags = <<>> THEN <<>> ELSE Head(frags) \o Flatten(Tail(frags))

\* the documents made of at most n fragments of a pool, as lists of lines
DocsOf(pool, n) ==
  { Flatten(f) : f \in UNION { [1..k -> pool] : k \in 1..n } }

Opts(indentSize, adjustTextBlocks) ==
  [indentSize |-> indentSize, adjustTextBlocks |-> adjustTextBlocks]

SwitchStatement ==
  << <<"switch", "(", "x", ")", "{">>,
     <<"case", SP, "1", ":">>,
     <<SP, "x", ";", SP>>,
     <<"break", ";">>,
     <<TAB, "default", ":">>,
     <<"break", ";">>,
     <<"}">> >>

\* a switch nested in a case of another one; the inner break line also closes
\* the inner switch
NestedSwitch ==
  << <<"switch", "(", "x", ")", "{">>,
     <<"case", SP, "1", ":">>,
     <<"switch", "(", "x", ")", "{">>,
     <<"case", SP, "1", ":">>,
     <<"break", ";", SP, "}">>,
     <<"@", ":", "default", ":">>,
     <<"}">> >>

\* a switch whose only label follows the header
SwitchOpen ==
  << <<"switch", "(", "x", ")", "{">>,
     <<"case", SP, "1", ":">> >>

MainFragments ==
  { << <<"<div>">> >>,
    << <<SP, "</div>">> >>,
    << <<"<script>">> >>,
    << <<"</script>">> >>,
    << <<"<text>">> >>,
    << <<"</text>">> >>,
    << <<SP, SP, "{">>, <<"@", ":", TAB, "x">> >>,
    << <<"}">>, <<>> >>,
    << <<SP, "x", CR, "x">> >>,
    SwitchStatement,
    NestedSwitch,
    SwitchOpen }

MainInputs == { Join(d, <<LF>>) : d \in DocsOf(MainFragments, MaxFrags) }

ShortInputs == { Join(d, <<LF>>) : d \in DocsOf(MainFragments, MaxFrags - 1) }

(***************************************************************************)
(* The state machine                                                       *)
(***************************************************************************)
Machine ==
  [pc |-> pc, input |-> input, options |-> options, env |-> env, scan |-> scan,
   plan |-> plan, blk |-> blk, out |-> out, validation |-> validation,
   result |-> result]

Becomes(m) ==
  /\ pc' = m.pc
  /\ input' = m.input
  /\ options' = m.options
  /\ env' = m.env
  /\ scan' = m.scan
  /\ plan' = m.plan
  /\ blk' = m.blk
  /\ out' = m.out
  /\ validation' = m.validation
  /\ result' = m.result

Is(m) ==
  /\ pc = m.pc
  /\ input = m.input
  /\ options = m.options
  /\ env = m.env
  /\ scan = m.scan
  /\ plan = m.plan
  /\ blk = m.blk
  /\ out = m.out
  /\ validation = m.validation
  /\ result = m.result

InitWith(inputs, optionSet) ==
  \E in \in inputs, opts \in optionSet : Is(Start(in, opts))

\* every document with the block pass on; the shorter ones with it off as well
Init ==
  \/ InitWith(MainInputs, {Opts(Finite(4, 1), TRUE)})
  \/ InitWith(ShortInputs, {Opts(Finite(2, 1), FALSE)})

ScanLine ==
  /\ pc = "scan"
  /\ scan.i < Len(env.lines)
  /\ Becomes(ScanLineOp(Machine))

EndScan ==
  /\ pc = "scan"
  /\ scan.i >= Len(env.lines)
  /\ Becomes(EndScanOp(Machine))

StartBlock ==
  /\ pc = "blocks"
  /\ env.adjustTextBlocks
  /\ ~blk.running
  /\ Becomes(StartBlockOp(Machine))

BlockLine ==
  /\ pc = "blocks"
  /\ env.adjustTextBlocks
  /\ blk.running
  /\ Becomes(BlockLineOp(Machine))

RestoreBlocks ==
  /\ pc = "blocks"
  /\ ~env.adjustTextBlocks
  /\ Becomes(RestoreBlocksOp(Machine))

Render ==
  /\ pc = "render"
  /\ Becomes(RenderOp(Machine))

InsertSwitch ==
  /\ pc = "insert"
  /\ Becomes(InsertSwitchOp(Machine))

Validate ==
  /\ pc = "validate"
  /\ Becomes(ValidateOp(Machine))

Return ==
  /\ pc = "return"
  /\ Becomes(ReturnOp(Machine))

Next ==
  \/ ScanLine
  \/ EndScan
  \/ StartBlock
  \/ BlockLine
  \/ RestoreBlocks
  \/ Render
  \/ InsertSwitch
  \/ Validate
  \/ Return

Spec == Init /\ [][Next]_vars

TypeOK == pc \in {"scan", "blocks", "render", "insert", "validate", "return", "done"}

(***************************************************************************)
(* validateOutput and the return of formatText on candidate outputs        *)
(*                                                                         *)
(* validateOutput is a function of the line infos, of the lines handed to  *)
(* it and of the flag of insertSwitchBlankLines.  Its arguments are drawn  *)
(* here from the rendering of a document and from variations of it (a line *)
(* dropped, altered or added), so that both of its verdicts and both       *)
(* returns of formatText are taken.                                        *)
(***************************************************************************)
RECURSIVE RunTo(_, _)
RunTo(m, target) ==
  IF m.pc = target \/ m.pc = "done" THEN m ELSE RunTo(StepOp(m), target)

\* a switch in a script block
ScriptSwitch == << <<"<script>">> >> \o SwitchStatement \o << <<"</script>">> >>

ValidatorFragments ==
  { << <<"<div>">>, <<SP, "x">> >>,
    ScriptSwitch,
    << <<"}">>, <<>> >> }

ValidatorInputs ==
  { Join(d, <<LF>>) : d \in DocsOf(ValidatorFragments, MaxFrags - 1) }

RemoveAt(ls, k) == SubSeq(ls, 1, k - 1) \o SubSeq(ls, k + 1, Len(ls))

InsertAt(ls, k, line) == SubSeq(ls, 1, k - 1) \o <<line>> \o SubSeq(ls, k, Len(ls))

\* the lines, and the lines with one line dropped, altered, indented, turned
\* into a bare text-output prefix or added, or with two lines altered
Candidates(ls) ==
  {ls}
  \cup { RemoveAt(ls, k) : k \in 1..Len(ls) }
  \cup { [ls EXCEPT ![k] = ls[k] \o <<"x">>] : k \in 1..Len(ls) }
  \cup { [ls EXCEPT ![k] = <<SP>> \o ls[k]] : k \in 1..Len(ls) }
  \cup { [ls EXCEPT ![k] = RAZOR_TEXT] : k \in 1..Len(ls) }
  \cup { [ls EXCEPT ![k] = ls[k] \o <<"x">>, ![Len(ls)] = ls[Len(ls)] \o <<"x">>] :
            k \in 1..Len(ls) }
  \cup { InsertAt(ls, k, <<>>) : k \in 1..(Len(ls) + 1) }
  \cup { InsertAt(ls, k, <<"x">>) : k \in 1..(Len(ls) + 1) }

InitValidator ==
  \E in \in ValidatorInputs, allow \in BOOLEAN :
    \E m \in { RunTo(Start(in, Opts(Finite(4, 1), TRUE)), "validate") } :
      \E c \in Candidates(m.out.lines) :
        Is([m EXCEPT !.out.lines = c,
                     !.out.insertedBlankLines = allow,
                     !.out.output = Join(c, m.env.lineEnding)])

NextValidator ==
  \/ Validate
  \/ Return

SpecValidator == InitValidator /\ [][NextValidator]_vars

(***************************************************************************)
(* formatText under every kind of options.indentSize                       *)
(***************************************************************************)
\* the input of the test 'line count and content preserved'
SpanExample ==
  << <<"<div>">>, <<SP, SP, "<span>", "T", "e", "s", "t", "</span>">>, <<"</div>">> >>

OptionFragments ==
  { SpanExample,
    << <<"@", ":", "<div>", "{">>,
       <<"x", SP, "}">>,
       <<"<div>", "<div>">>,
       <<"</div>", SP, "</div>", "x">>,
       <<"}", "}">> >>,
    << <<"<div>">>, <<TAB, "x">> >>,
    << <<"<text>">>, <<SP, "{">>, <<"</text>">> >>,
    << <<"<script>">>,
       <<"switch", "(", SP, "x", SP, ")", "{">>,
       <<"break", ";">>,
       <<"@", ":", SP, SP, "case", SP, "1", ":">>,
       <<"}">>,
       <<"</script>">> >>,
    << <<"}">>, <<>> >> }

OptionInputs == { Join(d, <<LF>>) : d \in DocsOf(OptionFragments, MaxFrags - 1) }

IndentSizes ==
  { NaN, PosInfinity, NegInfinity,
    Finite(0, 1), Finite(-1, 1), Finite(-1, 2), Finite(-3, 1),
    Finite(1, 2), Finite(1, 1), Finite(2, 1), Finite(5, 2), Finite(4, 1) }

AllOptions == { Opts(size, adjust) : size \in IndentSizes, adjust \in BOOLEAN }

InitOptions == InitWith(OptionInputs, AllOptions)

SpecOptions == InitOptions /\ [][Next]_vars

(***************************************************************************)
(* formatText under each line-ending convention                            *)
(***************************************************************************)
CRLF == <<CR, LF>>

\* the lines joined with the two conventions in turn
RECURSIVE JoinMixed(_, _)
JoinMixed(ls, crlf) ==
  IF ls = <<>> THEN <<>>
  ELSE IF Len(ls) = 1 THEN ls[1]
  ELSE ls[1] \o (IF crlf THEN CRLF ELSE <<LF>>) \o JoinMixed(Tail(ls), ~crlf)

EolFragments ==
  { << <<"<div>">>, <<SP, "x", CR, "x">> >>,
    << <<"<script>">>, <<"switch", "(", "x", ")", "{">>, <<"case", SP, "1", ":">>,
       <<"break", ";">>, <<"default", ":">>, <<"}">>, <<"</script>">> >>,
    << <<"x", CR>>, <<>> >>,
    << <<"</div>">> >> }

EolInputs ==
  LET docs == DocsOf(EolFragments, MaxFrags - 1)
  IN { Join(d, <<LF>>) : d \in docs }
     \cup { Join(d, CRLF) : d \in docs }
     \cup { JoinMixed(d, b) : d \in docs, b \in BOOLEAN }

InitEol ==
  InitWith(EolInputs, {Opts(Finite(4, 1), TRUE), Opts(Finite(2, 1), FALSE)})

SpecEol == InitEol /\ [][Next]_vars

(***************************************************************************)
(* formatText over documents made of whole captured blocks                 *)
(***************************************************************************)
\* whole blocks, with the tags that put them one level down
BlockFragments ==
  { << <<"<div>">> >>,
    << <<"</div>">> >>,
    << <<"<script>">>,
       <<TAB, "switch", "(", "x", ")", "{">>,
       <<"case", SP, "1", ":">>,
       <<SP, SP, "x", ";">>,
       <<"break", ";">>,
       <<"default", ":">>,
       <<"}">>,
       <<"</script>">> >>,
    << <<"<text>">>, <<SP, "{">>, <<"{">>, <<"x">>, <<"}", "}">>, <<"</text>">> >>,
    << <<"<script>">>,
       <<"@", "i", "f", "(", "x", ")", "{">>,
       <<SP, SP, "x", ";">>,
       <<"}">>,
       <<SP, "switch", "(", "x", ")", "{">>,
       <<"case", SP, "1", ":">>,
       <<"break", ";">>,
       <<"default", ":">>,
       <<"}">>,
       <<"</script>">> >>,
    << <<"<script>">>,
       <<SP, "@", "i", "f", "(", "x", ")", "{">>,
       <<TAB, "switch", "(", "x", ")", "{">>,
       <<"case", SP, "1", ":">>,
       <<"break", ";">>,
       <<"default", ":">>,
       <<"}">>,
       <<"}">>,
       <<"</script>">> >>,
    << <<"<script>">>,
       <<SP, "switch", "(", "x", ")", "{">>,
       <<"@", ":", "case", SP, "1", ":">>,
       <<"@", ":", SP, SP, "x", ";">>,
       <<"@", ":", "x", CR, "x">>,
       <<"@", ":">>,
       <<"@", ":", "}">>,
       <<"</script>">> >>,
    << <<"<script>">>,
       <<"@", ":", "switch", "(", "x", ")", "{">>,
       <<"@", ":", "case", SP, "1", ":">>,
       <<"@", ":", "break", ";">>,
       <<"@", ":", "default", ":">>,
       <<TAB, "x", ";">>,
       <<"break", ";">>,
       <<"case", SP, "1", ":">>,
       <<"@", ":", "}">>,
       <<"</script>">> >> }

BlockInputs == { Join(d, <<LF>>) : d \in DocsOf(BlockFragments, MaxFrags - 1) }

BlockOptions == { Opts(Finite(4, 1), TRUE), Opts(Finite(4, 1), FALSE) }

InitBlocks == InitWith(BlockInputs, BlockOptions)

SpecBlocks == InitBlocks /\ [][Next]_vars

(***************************************************************************)
(* formatText over documents of short lines for the scanners: elements     *)
(* opened and closed on one line, quotes, comments and markup comments     *)
(***************************************************************************)
ScanFragments ==
  { << <<"<text>", "x", "</text>">>, <<SP, "y">> >>,
    << <<"<script>", "x", "</script>">>, <<SP, "{">> >>,
    << <<"<div>">> >>,
    << <<"<script>">> >>,
    << <<"</script>">> >>,
    << <<"<text>">>,
       <<SP, "{">>,
       <<HTML_COMMENT_OPEN>>,
       <<"switch", "(", "x", ")", "{">>,
       <<"</text>">> >>,
    << <<"<script>">>, <<SP, "{">>, <<"<div>">>, <<"</script>">> >>,
    << <<"<style>">>, <<"</style>">> >>,
    << <<"<div>", HTML_COMMENT_OPEN, "<div>">>,
       <<"</div>", HTML_COMMENT_CLOSE, SP, "<div>">>,
       <<SP, "x">>,
       <<HTML_COMMENT_OPEN, "<div>", HTML_COMMENT_CLOSE, "</div>">>,
       <<"</div>">> >>,
    << <<"switch", "(", "x", ")", "{">>, <<"case", SP, "1", ":">>, <<"}">> >>,
    << <<"switch", SP, "(", "x", ")">>,
       <<"@", ":">>,
       <<>>,
       <<SP, "{">>,
       <<"case", SP, "1", ":">>,
       <<"}">> >>,
    << <<"switch", "(", "x", ")">>,
       <<"@", "x">>,
       <<"x", ";">>,
       <<"switch", "(", "x", ")", "/", "*">>,
       <<"{", "*", "/">>,
       <<"x">> >>,
    << <<HTML_COMMENT_OPEN>>,
       <<"switch", "(", "x", ")", "{">>,
       <<>>,
       <<"{">>,
       <<HTML_COMMENT_CLOSE>> >> }

ScanInputs == { Join(d, <<LF>>) : d \in DocsOf(ScanFragments, MaxFrags - 1) }

InitScan == InitWith(ScanInputs, BlockOptions)

SpecScan == InitScan /\ [][Next]_vars

(***************************************************************************)
(* formatText over lines of code made of braces, quotes, comment marks and *)
(* an escaped quote: each line on its own and after a line that opens a    *)
(* block comment, in the main pass, and each line inside a script block    *)
(***************************************************************************)
BracePieces ==
  { <<"{">>, <<"}">>, <<"'">>, <<"\"">>, <<BACKTICK>>,
    <<"/", "*">>, <<"*", "/">>, <<"/", "/">>, <<"\\", "'">> }

\* the lines made of at most MaxFrags pieces
BraceLines == DocsOf(BracePieces, MaxFrags)

BraceInputs ==
  { Join(<<line, <<"{">>, <<"}">> >>, <<LF>>) : line \in BraceLines }
  \cup { Join(<<<<"x", "/", "*">>, line, <<"{">> >>, <<LF>>) : line \in BraceLines }

ScriptBraceInputs ==
  { Join(<< <<"<script>">>, line, <<"{">>, <<"</script>">> >>, <<LF>>) :
      line \in BraceLines }

InitBraces ==
  \/ InitWith(BraceInputs, {Opts(Finite(4, 1), TRUE)})
  \/ InitWith(ScriptBraceInputs, BlockOptions)

SpecBraces == InitBraces /\ [][Next]_vars

(***************************************************************************)
(* formatText over documents with blank lines and switches in every place  *)
(***************************************************************************)
\* a switch whose label directly follows a break line
BreakSwitch ==
  << <<"switch", "(", "x", ")", "{">>,
     <<"break", ";">>,
     <<"case", SP, "1", ":">>,
     <<"}">> >>

LayoutFragments ==
  { << <<"<div>">> >>,
    << <<"</div>">> >>,
    << <<"{">>, <<>>, <<SP, SP>>, <<"}">> >>,
    << <<"<script>">>, <<"{">>, <<>>, <<"@", ":", "x">>, <<"</script>">> >>,
    << <<"<script>">>,
       <<"@", ":", "{">>,
       <<"@", ":", "x">>,
       <<SP>>,
       <<"@", ":", "x">>,
       <<"}">>,
       <<"</script>">> >>,
    << <<"<script>">>,
       <<"switch", "(", "x", ")">>,
       <<>>,
       <<"{">>,
       <<"case", SP, "1", ":">>,
       <<TAB>>,
       <<"x", ";">>,
       <<"break", ";">>,
       <<"default", ":">>,
       <<"break", ";">>,
       <<>>,
       <<"case", SP, "1", ":">>,
       <<"}">>,
       <<"</script>">> >>,
    << <<"<script>">>, <<"x", "/", "*">>, <<>>, <<"{", "*", "/">>, <<"x">>,
       <<"</script>">> >>,
    << <<"<text>">>, <<"{">>, <<SP>>, <<"x">>, <<"}">> >> \o BreakSwitch
       \o << <<"</text>">> >>,
    BreakSwitch,
    << <<"<div>">>, <<"x", SP, "{">>, <<TAB, "x">>, <<"}">>, <<"</div>">> >>,
    << <<"<span>">>, <<"x", "<span>">>, <<"x">>, <<"</span>">>, <<"</span>">> >>,
    << <<"<textarea>">>, <<SP, "x">>, <<"</textarea>">> >>,
    << <<"<text>">> >> \o BreakSwitch,
    << <<"<script>">>, <<"@", "x">> >> \o BreakSwitch \o << <<"</script>">> >> }

LayoutInputs == { Join(d, <<LF>>) : d \in DocsOf(LayoutFragments, MaxFrags - 1) }

InitLayout == InitWith(LayoutInputs, BlockOptions)

SpecLayout == InitLayout /\ [][Next]_vars

(***************************************************************************)
(* Properties of formatText                                                *)
(***************************************************************************)
Succeeded == pc = "done" /\ ~result.hasError

InputLines == splitLines(input).lines

ReturnedLines == splitLines(result.output).lines

\* two lines that differ at most in their leading whitespace, in the spacing
\* after a text-output prefix, or in the spacing of a switch header
SameContent(a, b) ==
  LET ta == trimStart(a)
      tb == trimStart(b)
      ha == SwitchHeaderMatch(ta)
      hb == SwitchHeaderMatch(tb)
  IN \/ ta = tb
     \/ /\ StartsWith(ta, RAZOR_TEXT)
        /\ StartsWith(tb, RAZOR_TEXT)
        /\ trimStart(Slice(ta, 3)) = trimStart(Slice(tb, 3))
     \/ /\ ha.matches
        /\ hb.matches
        /\ trim(ha.inner) = trim(hb.inner)

\* a line that can be a separator: blank, or a bare text-output prefix
SeparatorShaped(line) == trim(line) = <<>> \/ trim(line) = RAZOR_TEXT

\* outl from j on is orig from i on, line for line, with separators put
\* before some of its lines
RECURSIVE Aligned(_, _, _, _)
Aligned(orig, outl, i, j) ==
  IF i > Len(orig) THEN j > Len(outl)
  ELSE IF j > Len(outl) THEN FALSE
  ELSE IF SameContent(orig[i], outl[j]) THEN Aligned(orig, outl, i + 1, j + 1)
  ELSE SeparatorShaped(outl[j]) /\ Aligned(orig, outl, i, j + 1)

\* C1: when formatText returns no error, its output is the input line for
\* line, in order, once the inserted separators are removed, each line equal
\* to its input line up to leading whitespace, the spacing after '@:' and the
\* spacing of a switch header
C1_ContentPreserved ==
  Succeeded => Aligned(InputLines, ReturnedLines, 1, 1)

\* a successful run that inserted a separator and normalised a line
C1_Witness ==
  /\ Succeeded
  /\ out.insertedBlankLines
  /\ \E k \in 1..Len(InputLines) :
       trimStart(InputLines[k]) # trimStart(out.outputLines[k])

\* the number of lines insertSwitchBlankLines added
SeparatorsInserted == Len(out.lines) - Len(out.outputLines)

BreakLine(line) == IsBreakStatement(CodeOf(trimStart(line)))

LabelLine(line) == IsCaseLabel(CodeOf(trimStart(line)))

\* some break line of the input is immediately followed by a label
BreakThenLabel ==
  \E k \in 1..(Len(InputLines) - 1) :
    BreakLine(InputLines[k]) /\ LabelLine(InputLines[k + 1])

\* C3: on success the output has as many lines as the input plus the
\* separators inserted; with no break line immediately followed by a
\* case/default label nothing is inserted and the line counts are equal
C3_LineCount ==
  Succeeded =>
    /\ Len(ReturnedLines) = Len(InputLines) + SeparatorsInserted
    /\ SeparatorsInserted >= 0
    /\ ~BreakThenLabel =>
         /\ ~out.insertedBlankLines
         /\ SeparatorsInserted = 0
         /\ Len(ReturnedLines) = Len(InputLines)

\* a successful run that inserted a separator and returned a line more than
\* it was given
C3_Witness ==
  /\ Succeeded
  /\ SeparatorsInserted >= 1
  /\ BreakThenLabel
  /\ Len(ReturnedLines) = Len(InputLines) + SeparatorsInserted

\* C6: the nesting level of the main scan, the level and the directive brace
\* depth of a block pass, and every width assigned to a line are never
\* negative
C6_NonNegativeNesting ==
  /\ scan.level >= 0
  /\ blk.level >= 0
  /\ blk.razorBraceDepth >= 0
  /\ \A k \in 1..Len(plan.desiredIndents) :
       /\ plan.desiredIndents[k] = NULL_INDENT \/ plan.desiredIndents[k] >= 0
       /\ plan.razorTextContentIndents[k] >= 0
  /\ pc \in {"insert", "validate", "return", "done"} =>
       \A k \in 1..Len(plan.desiredIndents) : plan.desiredIndents[k] >= 0

\* the first line closes a tag or a brace nothing opened, and the level stays 0
C6_Witness ==
  /\ pc = "scan"
  /\ scan.i = 1
  /\ scan.level = 0
  /\ LET trimmed == trimStart(env.lineInfos[1].rest)
     IN countLeadingClosings(trimmed) + countLeadingBraceClosings(trimmed) > 0
  /\ plan.desiredIndents[1] = 0

\* the per-line records of the log
LineRecords == SelectSeq(result.logs, LAMBDA r : r.line > 0)

OriginalWidth(k) == analyzeLine(InputLines[k], env.indentSize).leadingWidth

C2_FailureReturnsInput ==
  pc = "done" =>
    /\ result.hasError <=> ~validation.ok
    /\ result.hasError =>
         /\ result.output = input
         /\ result.logs = <<>>
         /\ result.error.text # ""
    /\ ~result.hasError =>
         /\ result.output = Join(out.lines, env.lineEnding)
         /\ validateOutput(env.lineInfos, ReturnedLines, out.insertedBlankLines).ok

\* validation failed on an output that differs from the input, and the input
\* came back
C2_Witness ==
  /\ pc = "done"
  /\ ~validation.ok
  /\ out.output # input
  /\ result.hasError
  /\ result.output = input

\* a text, script or style capture is still open when the document ends
UnterminatedBlock == scan.inTextBlock \/ scan.inRawBlock

\* C4: an input that formats without error and has no unterminated block
\* formats to a text that formatting again, with the same options, leaves
\* unchanged
C4_Idempotent ==
  (Succeeded /\ ~UnterminatedBlock) =>
    formatText(result.output, options).output = result.output

\* the rendered lines before which a separator belongs: the labels that
\* directly follow a break line
SeparatorPlaces ==
  { k \in 2..Len(out.outputLines) :
      /\ plan.rawLineMeta[k].present
      /\ plan.rawLineMeta[k].isCaseOrDefault
      /\ plan.rawLineMeta[k - 1].present
      /\ plan.rawLineMeta[k - 1].isBreak }

\* the lines with a blank line put before each line of places
WithSeparators(ls, places) ==
  Flatten([k \in 1..Len(ls) |->
             IF k \in places THEN << <<>>, ls[k] >> ELSE << ls[k] >>])

\* the lines with every separator-shaped line made blank
Blanked(ls) ==
  [j \in 1..Len(ls) |-> IF SeparatorShaped(ls[j]) THEN <<>> ELSE ls[j]]

\* every line with switch metadata lies in a script or style block that the
\* block pass reindented
MetaOnlyInRawBlocks ==
  \A k \in 1..Len(plan.rawLineMeta) :
    plan.rawLineMeta[k].present =>
      \E j \in 1..Len(plan.textBlocks) :
        LET b == plan.textBlocks[j]
        IN /\ b.tagName \in RAW_TAGS
           /\ ~b.skip
           /\ b.startLine <= k - 1
           /\ k - 1 <= b.endLine

\* C5 (amended): inside a reindented script or style block exactly one
\* separator is put before each case/default label of a switch that directly
\* follows a break line of a switch body, whichever switch the break belongs
\* to; none is put anywhere else, and formatting the result again inserts
\* none
C5_SwitchSpacing ==
  Succeeded =>
    /\ MetaOnlyInRawBlocks
    /\ Blanked(ReturnedLines) = Blanked(WithSeparators(out.outputLines, SeparatorPlaces))
    /\ \A again \in { Run(Start(result.output, options)) } :
         /\ ~again.out.insertedBlankLines
         /\ Len(again.out.lines) = Len(ReturnedLines)

\* a bare text-output prefix was inserted as a separator, and a label was
\* left without one
C5_Witness ==
  /\ Succeeded
  /\ Cardinality(SeparatorPlaces) >= 1
  /\ \E j \in 1..Len(ReturnedLines) : trim(ReturnedLines[j]) = RAZOR_TEXT
  /\ \E k \in 1..Len(plan.rawLineMeta) :
       plan.rawLineMeta[k].isCaseOrDefault /\ k \notin SeparatorPlaces

\* the state of the block pass when it reaches the line of index lineIndex
RECURSIVE BlockBefore(_, _)
BlockBefore(m, lineIndex) ==
  IF m.pc = "done" THEN IdleBlock
  ELSE IF m.pc = "blocks" /\ m.blk.running /\ m.blk.lineIndex = lineIndex THEN m.blk
  ELSE BlockBefore(StepOp(m), lineIndex)

\* the break line before line k and the label on line k belong to one switch:
\* the break line closed no switch
SameSwitch(k) ==
  Len(BlockBefore(Start(input, options), k - 2).switchDepths)
    = Len(BlockBefore(Start(input, options), k - 1).switchDepths)

\* C5 as stated: a separator before exactly the labels that directly follow
\* a break statement of their own switch
C5_SameSwitchOnly ==
  Succeeded =>
    Blanked(ReturnedLines) =
      Blanked(WithSeparators(out.outputLines,
                             { k \in SeparatorPlaces : SameSwitch(k) }))

\* the lines after the opening line of the capture left open keep their
\* original width, and no separator is put among them
C7_OriginalWidths ==
  (pc = "done" /\ UnterminatedBlock) =>
    LET first == scan.currentTextBlock.startLine + 1
        n == Len(env.lines)
    IN /\ ~result.hasError
       /\ \A k \in first..n :
            plan.desiredIndents[k] = env.lineInfos[k].leadingWidth
       /\ SubSeq(ReturnedLines, Len(ReturnedLines) - (n - first), Len(ReturnedLines))
            = SubSeq(out.outputLines, first, n)

\* the capture left open is recorded as a block closed at the last line, with
\* skip set
C7_Recorded ==
  (pc = "done" /\ UnterminatedBlock) =>
    \E j \in 1..Len(plan.textBlocks) :
      /\ plan.textBlocks[j].startLine = scan.currentTextBlock.startLine
      /\ plan.textBlocks[j].endLine = Len(env.lines) - 1
      /\ plan.textBlocks[j].skip

\* C7: when a text, script or style capture is still open at the end of the
\* document, the lines after its opening line keep their original width, no
\* separator is inserted among them, no error is returned, and the block is
\* recorded as closed with skip set
C7_UnterminatedFallback == C7_OriginalWidths /\ C7_Recorded

\* NaN, an infinity, zero or a negative number
BadIndentSize(value) ==
  \/ value \in {NaN, PosInfinity, NegInfinity}
  \/ value.kind = "finite" /\ value.num <= 0

\* C8: with options.indentSize NaN, an infinity, zero or negative, formatText
\* works with an indent unit of 2, as it does for indentSize 2, and returns
\* no error
C8_BadIndentSize ==
  BadIndentSize(options.indentSize) =>
    /\ env.indentSize = 2
    /\ pc = "done" =>
         /\ ~result.hasError
         /\ result = formatText(input, Opts(Finite(2, 1), options.adjustTextBlocks))

\* indentSize 0, and a line that was given one unit of 2
C8_Witness ==
  /\ pc = "done"
  /\ options.indentSize = Finite(0, 1)
  /\ ~result.hasError
  /\ \E k \in 1..Len(plan.desiredIndents) :
       plan.desiredIndents[k] = 2 /\ env.lineInfos[k].leadingWidth # 2

NoCRLF(s) == ~\E k \in 1..(Len(s) - 1) : s[k] = CR /\ s[k + 1] = LF

AllBreaksCRLF(s) == \A k \in 1..Len(s) : s[k] = LF => (k > 1 /\ s[k - 1] = CR)

CountLF(s) == Cardinality({ k \in 1..Len(s) : s[k] = LF })

\* C9: the line ending is CR LF when the input contains it and LF otherwise;
\* the output is its lines joined with that one line ending, so that an input
\* that uses one convention throughout gets every line break of its output in
\* that convention
C9_LineEnding ==
  /\ env.lineEnding = IF NoCRLF(input) THEN <<LF>> ELSE CRLF
  /\ Succeeded =>
       /\ result.output = Join(out.lines, env.lineEnding)
       /\ CountLF(result.output) = Len(out.lines) - 1
       /\ IF NoCRLF(input) THEN NoCRLF(result.output)
          ELSE AllBreaksCRLF(result.output)

\* an input that mixes the two conventions, returned with CR LF throughout
C9_Witness ==
  /\ Succeeded
  /\ ~NoCRLF(input)
  /\ ~AllBreaksCRLF(input)
  /\ Len(out.lines) >= 3
  /\ AllBreaksCRLF(result.output)
  /\ result.output # input

\* C11: on success, when no line's width changed, the log is the single
\* record 'No indentation changes detected.'
C11_NoChangesRecord ==
  (Succeeded /\ LineRecords = <<>>) => result.logs = <<NO_CHANGES_LOG>>

\* line k lies inside a captured text, script or style block: one recorded by
\* the scan, or the capture the document leaves open
InCapturedBlock(k) ==
  \/ \E j \in 1..Len(plan.textBlocks) :
       plan.textBlocks[j].startLine <= k - 1 /\ k - 1 <= plan.textBlocks[j].endLine
  \/ UnterminatedBlock /\ scan.currentTextBlock.startLine <= k - 1

\* the leading whitespace of a line, and its width in columns
LeadingOf(line) == SubSeq(line, 1, LeadingSpaces(line))

WidthOf(line) == countIndentWidth(LeadingOf(line), env.indentSize)

\* the widths the same input gets with the block pass on
AdjustedWidths ==
  Run(Start(input, Opts(options.indentSize, TRUE))).plan.desiredIndents

\* C12: with adjustTextBlocks off, every line inside a captured block comes
\* out with its original leading width and its content unmodified, no
\* separator is inserted, the output has as many lines as the input, and the
\* lines outside the blocks get the widths they get with the block pass on
C12_BlocksLeftAlone ==
  (pc = "done" /\ ~options.adjustTextBlocks) =>
    /\ ~result.hasError
    /\ ~out.insertedBlankLines
    /\ Len(ReturnedLines) = Len(InputLines)
    /\ \A adjusted \in { AdjustedWidths } :
         \A k \in 1..Len(InputLines) :
           IF InCapturedBlock(k)
             THEN /\ k <= Len(ReturnedLines)
                  /\ WidthOf(ReturnedLines[k]) = WidthOf(InputLines[k])
                  /\ Slice(ReturnedLines[k], LeadingSpaces(ReturnedLines[k]) + 1)
                       = Slice(InputLines[k], LeadingSpaces(InputLines[k]) + 1)
             ELSE plan.desiredIndents[k] = adjusted[k]

\* a block inside a div, left alone where the block pass would have moved a
\* line and put a separator, while the line closing the div was reindented
C12_Witness ==
  /\ pc = "done"
  /\ ~options.adjustTextBlocks
  /\ \E k \in 1..Len(InputLines) :
       /\ InCapturedBlock(k)
       /\ OriginalWidth(k) > 0
       /\ AdjustedWidths[k] # OriginalWidth(k)
  /\ \E k \in 1..Len(InputLines) :
       /\ ~InCapturedBlock(k)
       /\ plan.desiredIndents[k] # OriginalWidth(k)
  /\ Len(formatText(input, Opts(options.indentSize, TRUE)).output) > Len(result.output)

\* the content of input line k, and whether it is a directive line: one that
\* starts with '@' but not with '@:'
ContentOf(k) == trimStart(InputLines[k])

DirectiveLine(k) ==
  /\ ContentOf(k) # <<>>
  /\ Head(ContentOf(k)) = "@"
  /\ ~StartsWith(ContentOf(k), RAZOR_TEXT)

\* the number of braces that the directives of a block have left open before
\* line k: a directive line and the lines inside an open region count theirs
RECURSIVE RegionDepth(_, _)
RegionDepth(block, k) ==
  IF k <= block.startLine + 1 THEN 0
  ELSE
    LET before == RegionDepth(block, k - 1)
        braces == countBraces(ContentOf(k - 1), FALSE)
    IN IF ContentOf(k - 1) # <<>> /\ (before > 0 \/ DirectiveLine(k - 1))
         THEN Max(0, before + braces.open - braces.close)
         ELSE before

\* a plain line: it does not start with '@' and lies in no directive's braces
PlainLine(block, k) ==
  /\ ContentOf(k) # <<>>
  /\ Head(ContentOf(k)) # "@"
  /\ RegionDepth(block, k) = 0

LinesOf(block) == (block.startLine + 1)..(block.endLine + 1)

\* a script or style block that mixes directive lines with plain lines
AmbiguousRemix(block) ==
  /\ block.tagName \in RAW_TAGS
  /\ \E k \in LinesOf(block) : DirectiveLine(k)
  /\ \E k \in LinesOf(block) : PlainLine(block, k)

\* the rendered lines of a block are its input lines with their widths, and
\* they come out next to each other
KeptAsWritten(block) ==
  /\ \A k \in LinesOf(block) :
       /\ WidthOf(out.outputLines[k]) = WidthOf(InputLines[k])
       /\ trimStart(out.outputLines[k]) = ContentOf(k)
  /\ \E shift \in 0..(Len(ReturnedLines) - Len(InputLines)) :
       \A k \in LinesOf(block) : ReturnedLines[k + shift] = out.outputLines[k]

\* the widths the main pass alone gives
MainPassWidths ==
  Run(Start(input, Opts(options.indentSize, FALSE))).plan.desiredIndents

\* C13: a script or style block is left at its original indentation exactly
\* when it mixes a directive line with a plain line, the lines inside a
\* directive's braces not counting as plain; every line of such a block keeps
\* its width and content, no separator is put in it, and the lines outside
\* the blocks are reindented as usual
C13_AmbiguousRemix ==
  (Succeeded /\ options.adjustTextBlocks) =>
    /\ \A j \in 1..Len(plan.textBlocks) :
         LET block == plan.textBlocks[j]
         IN (block.tagName \in RAW_TAGS /\ block.endLine >= block.startLine) =>
              /\ shouldPreserveRawBlockIndent(block, env.lineInfos) = AmbiguousRemix(block)
              /\ AmbiguousRemix(block) => KeptAsWritten(block)
    /\ \A main \in { MainPassWidths } :
         \A k \in 1..Len(InputLines) :
           ~InCapturedBlock(k) => plan.desiredIndents[k] = main[k]

\* a remix block inside a div: a line in the braces of its directive is not
\* what makes it one, its switch keeps its header, its widths and its lines
\* where the block pass would have put a separator, and the line closing the
\* script is moved
C13_Witness ==
  /\ Succeeded
  /\ options.adjustTextBlocks
  /\ \E j \in 1..Len(plan.textBlocks) :
       LET block == plan.textBlocks[j]
       IN /\ AmbiguousRemix(block)
          /\ block.parentLevel > 0
          /\ \E k \in LinesOf(block) : OriginalWidth(k) > 0
          /\ \E k \in LinesOf(block) :
               ~DirectiveLine(k) /\ RegionDepth(block, k) > 0
          /\ \E k \in LinesOf(block) :
               IsCaseLabel(ContentOf(k)) /\ IsBreakStatement(ContentOf(k - 1))
  /\ \E k \in 1..Len(InputLines) :
       ~InCapturedBlock(k) /\ plan.desiredIndents[k] # OriginalWidth(k)

\* a block whose plain-looking lines all lie in a directive's braces is
\* reindented
C13_BracedOnly ==
  /\ Succeeded
  /\ options.adjustTextBlocks
  /\ \E j \in 1..Len(plan.textBlocks) :
       LET block == plan.textBlocks[j]
       IN /\ ~AmbiguousRemix(block)
          /\ \E k \in LinesOf(block) : DirectiveLine(k)
          /\ \E k \in LinesOf(block) :
               ~DirectiveLine(k) /\ plan.desiredIndents[k] # OriginalWidth(k)

\* the code of input line k: its content after a text-output prefix, if any
TextOutputLine(k) == StartsWith(ContentOf(k), RAZOR_TEXT)

JsOf(k) ==
  IF TextOutputLine(k) THEN trimStart(Slice(ContentOf(k), 3)) ELSE ContentOf(k)

StartsWord(k, words) == JsOf(k) # <<>> /\ Head(JsOf(k)) \in words

HasBrace(k) == \E i \in 1..Len(InputLines[k]) : InputLines[k][i] \in {"{", "}"}

\* lines h..c of a block are a switch with its brace on the header line, its
\* closing brace on line c, and no brace and no switch in between
BraceFreeSwitch(block, h, c) ==
  /\ h \in LinesOf(block)
  /\ c \in LinesOf(block)
  /\ h < c
  /\ StartsWord(h, {"switch"})
  /\ trim(JsOf(h))[Len(trim(JsOf(h)))] = "{"
  /\ StartsWord(c, {"}"})
  /\ \A k \in (h + 1)..(c - 1) : ~HasBrace(k) /\ ~StartsWord(k, {"switch"})

\* the block pass meets line h outside every switch
NotNested(h) == BlockBefore(Start(input, options), h - 1).switchDepths = <<>>

\* a script or style block that the block pass reindents
Reindented(block) ==
  /\ block.tagName \in RAW_TAGS
  /\ ~block.skip
  /\ block.endLine >= block.startLine
  /\ ~AmbiguousRemix(block)

\* the column at which the code of rendered line k starts
CodeColumn(k) ==
  LET line == out.outputLines[k]
      n == LeadingSpaces(line)
      after == Slice(line, n + 1)
  IN IF StartsWith(after, RAZOR_TEXT)
       THEN n + 2 + LeadingSpaces(Slice(after, 3))
       ELSE n

\* the width the formatter assigns to line k
AssignedWidth(k) == plan.desiredIndents[k]

\* labels one unit under the header, the statements that follow a label one
\* unit under the labels, the closing brace under the header, each line
\* measured by col
SwitchLayout(col(_), h, c) ==
  /\ col(c) = col(h)
  /\ \A k \in (h + 1)..(c - 1) :
       JsOf(k) # <<>> =>
         IF StartsWord(k, {"case", "default"})
           THEN col(k) = col(h) + env.indentSize
           ELSE (\E l \in (h + 1)..(k - 1) : StartsWord(l, {"case", "default"}))
                  => col(k) = col(h) + 2 * env.indentSize

RECURSIVE BlockTrace(_, _)
BlockTrace(m, seen) ==
  IF m.pc = "done" THEN seen
  ELSE BlockTrace(StepOp(m),
         IF m.pc = "blocks" /\ m.blk.running
           THEN [seen EXCEPT ![m.blk.lineIndex + 1] = m.blk]
           ELSE seen)

BlockStates == BlockTrace(Start(input, options), [k \in 1..Len(InputLines) |-> IdleBlock])

\* the brace level of line k after the dedent of a leading closing brace
DedentedLevel(states, k) ==
  Max(0, states[k].level - (IF StartsWord(k, {"}"}) THEN 1 ELSE 0))

\* line k lies in a switch body where a label has been seen, and is neither a
\* label nor the closing brace that ends the switch
InLabelledBody(states, k) ==
  LET st == states[k]
      braces == countBraces(InputLines[k], st.inBlockComment)
  IN /\ st.switchDepths # <<>>
     /\ st.level >= st.switchDepths[Len(st.switchDepths)]
     /\ st.caseIndentDepth # NULL_INDENT
     /\ ~StartsWord(k, {"case", "default"})
     /\ ~( /\ StartsWord(k, {"}"})
           /\ Max(0, st.level + braces.open - braces.close)
                < st.switchDepths[Len(st.switchDepths)] )

\* the first line of the run of text-output lines that line k belongs to
RECURSIVE RunStart(_, _)
RunStart(block, k) ==
  IF k - 1 \in LinesOf(block) /\ TextOutputLine(k - 1)
    THEN RunStart(block, k - 1)
    ELSE k

\* what the block starts from: one level under its parent, a script or style
\* block of the top level at the margin
BlockBase(block) ==
  IF block.tagName \in RAW_TAGS /\ block.parentLevel = 0 THEN 0
  ELSE (block.parentLevel + 1) * env.indentSize

\* the text-output line k as the run rule prints it
RunLine(block, states, k) ==
  LET first == DedentedLevel(states, RunStart(block, k))
      depth == Max(0, DedentedLevel(states, k) - first) * env.indentSize
               + (IF InLabelledBody(states, k) THEN env.indentSize ELSE 0)
  IN Repeat(SP, BlockBase(block) + first * env.indentSize) \o RAZOR_TEXT
     \o (IF JsOf(k) = <<>> THEN <<>> ELSE <<SP>> \o Repeat(SP, depth) \o JsOf(k))

\* the text-output lines of the reindented script and style blocks that
\* satisfy want are printed by the run rule
RunRuleFor(want(_)) ==
  (Succeeded /\ options.adjustTextBlocks) =>
    \A states \in { BlockStates } :
      \A j \in 1..Len(plan.textBlocks) :
        LET block == plan.textBlocks[j]
        IN Reindented(block) =>
             \A k \in LinesOf(block) :
               (TextOutputLine(k) /\ want(k))
                 => out.outputLines[k] = RunLine(block, states, k)

\* C15: in a reindented script or style block every line of a maximal run of
\* text-output lines has its prefix at baseIndent + L0 units, L0 the dedented
\* level of the run's first line, and a non-empty content after one space
\* and max(0, level - L0) units, one more in a labelled switch body; a bare
\* prefix continues the run, a blank line or any other line ends it
C15_TextOutputRuns == RunRuleFor(LAMBDA k : TRUE)

\* the run rule holds for the lines that hold no carriage return
C15_WithoutCarriageReturn ==
  RunRuleFor(LAMBDA k : \A i \in 1..Len(InputLines[k]) : InputLines[k][i] # CR)

\* a run inside a div that holds a bare prefix, a line deeper than its first
\* line and a line shallower than it
C15_Witness ==
  /\ Succeeded
  /\ options.adjustTextBlocks
  /\ \E j \in 1..Len(plan.textBlocks) :
       LET block == plan.textBlocks[j]
       IN /\ Reindented(block)
          /\ block.parentLevel > 0
          /\ \E r, b, d, s \in LinesOf(block) :
               /\ RunStart(block, b) = r
               /\ RunStart(block, d) = r
               /\ RunStart(block, s) = r
               /\ r < b
               /\ b < s
               /\ TextOutputLine(b) /\ JsOf(b) = <<>>
               /\ TextOutputLine(d) /\ plan.razorTextContentIndents[d] > 0
               /\ TextOutputLine(s)
               /\ DedentedLevel(BlockStates, s) < DedentedLevel(BlockStates, r)

\* the separator that belongs before a rendered label line: the leading
\* whitespace of the line and a bare prefix when the label is on a
\* text-output line, an empty line otherwise
SeparatorFor(line) ==
  IF StartsWith(trimStart(line), RAZOR_TEXT)
    THEN LeadingOf(line) \o RAZOR_TEXT
    ELSE <<>>

\* C16: the line inserted before a case/default label is empty, unless the
\* label is on a text-output line: then it is that line's leading whitespace
\* followed by a bare '@:'
C16_SeparatorShape ==
  Succeeded =>
    ReturnedLines =
      Flatten([k \in 1..Len(out.outputLines) |->
                 IF k \in SeparatorPlaces
                   THEN << SeparatorFor(out.outputLines[k]), out.outputLines[k] >>
                   ELSE << out.outputLines[k] >>])

\* one document with a separator of each kind, the prefixed one indented
C16_Witness ==
  /\ Succeeded
  /\ \E k \in SeparatorPlaces :
       /\ StartsWith(trimStart(out.outputLines[k]), RAZOR_TEXT)
       /\ LeadingSpaces(out.outputLines[k]) > 0
  /\ \E k \in SeparatorPlaces : ~StartsWith(trimStart(out.outputLines[k]), RAZOR_TEXT)
  /\ \E j \in 1..Len(ReturnedLines) :
       Len(ReturnedLines[j]) > 2 /\ trim(ReturnedLines[j]) = RAZOR_TEXT
  /\ \E j \in 2..(Len(ReturnedLines) - 1) :
       /\ ReturnedLines[j] = <<>>
       /\ BreakLine(ReturnedLines[j - 1])
       /\ LabelLine(ReturnedLines[j + 1])

\* a block that the block pass reindents, of any of the three tags
Handled(block) ==
  /\ ~block.skip
  /\ block.endLine >= block.startLine
  /\ ~AmbiguousRemix(block)

\* the width of the general rule of the block pass for line k
BlockRuleWidth(block, states, k) ==
  BlockBase(block) + DedentedLevel(states, k) * env.indentSize
  + (IF InLabelledBody(states, k) THEN env.indentSize ELSE 0)

\* the non-blank lines of the reindented blocks that satisfy want have the
\* width of the general rule
BlockRuleFor(want(_, _)) ==
  (Succeeded /\ options.adjustTextBlocks) =>
    \A states \in { BlockStates } :
      \A j \in 1..Len(plan.textBlocks) :
        LET block == plan.textBlocks[j]
        IN Handled(block) =>
             \A k \in LinesOf(block) :
               (ContentOf(k) # <<>> /\ want(block, k))
                 => AssignedWidth(k) = BlockRuleWidth(block, states, k)

\* C17 as stated: in a reindented block every non-blank line gets the width
\* baseIndent + max(0, level - d) units, plus the switch extra, d being 1 for
\* a line that starts with closing braces; baseIndent is one unit under the
\* parent, or 0 for a script or style block of the top level
C17_BlockWidths == BlockRuleFor(LAMBDA block, k : TRUE)

\* C17 (amended): the rule holds for every non-blank line but the text-output
\* lines of script and style blocks, which follow the rule of their run
C17_BlockWidthsButRuns ==
  BlockRuleFor(LAMBDA block, k : ~(block.tagName \in RAW_TAGS /\ TextOutputLine(k)))

\* a text block of the top level: its lines start one unit in, and a line
\* that starts with two closing braces at level 2 is put at level 1
C17_Witness ==
  /\ Succeeded
  /\ options.adjustTextBlocks
  /\ \E j \in 1..Len(plan.textBlocks) :
       LET block == plan.textBlocks[j]
       IN /\ Handled(block)
          /\ block.tagName = "text"
          /\ block.parentLevel = 0
          /\ \E k \in LinesOf(block) :
               /\ StartsWith(ContentOf(k), <<"}", "}">>)
               /\ BlockStates[k].level = 2
               /\ AssignedWidth(k) = 2 * env.indentSize
               /\ AssignedWidth(k) # OriginalWidth(k)

\* formatText is called on the example with unit n and the block pass on
ExampleDone(n) ==
  /\ pc = "done"
  /\ input = Join(SpanExample, <<LF>>)
  /\ options = Opts(Finite(n, 1), TRUE)

\* C18 as stated: with unit 4 and the block pass on, the input '<div>',
\* '  <span>Test</span>', '</div>' is returned byte for byte
C18_ExampleUnchanged == ExampleDone(4) => result.output = input

\* C18 (amended): with unit 4 the span line is returned with four leading
\* spaces, the other two lines as they are, and no error; it is with unit 2
\* that the output is the input byte for byte
C18_ExampleReindented ==
  /\ ExampleDone(4) =>
       /\ ~result.hasError
       /\ result.output =
            Join(<< SpanExample[1],
                    Repeat(SP, 4) \o trimStart(SpanExample[2]),
                    SpanExample[3] >>, <<LF>>)
  /\ ExampleDone(2) => (~result.hasError /\ result.output = input)

\* the example formatted with unit 4: the span line went from width 2 to 4
C18_Witness ==
  /\ ExampleDone(4)
  /\ OriginalWidth(2) = 2
  /\ AssignedWidth(2) = 4
  /\ LeadingSpaces(ReturnedLines[2]) = 4

\* the state of the main scan before each line, by line number
RECURSIVE MainTrace(_, _)
MainTrace(m, seen) ==
  IF m.pc # "scan" THEN seen
  ELSE MainTrace(StepOp(m), [seen EXCEPT ![m.scan.i + 1] = m.scan])

MainStates ==
  LET first == Start(input, options)
  IN MainTrace(first, [k \in 1..Len(InputLines) |-> first.scan])

\* the nesting level after line k
LevelAfter(states, k) ==
  IF k < Len(InputLines) THEN states[k + 1].level ELSE scan.level

ClosingTags == {"</div>", "</span>", "</text>", "</script>", "</style>", "</textarea>"}

OpeningTags == {"<div>", "<span>", "<text>", "<script>", "<style>", "<textarea>"}

\* the closing tags and closing braces at the very start of a content, taken
\* one after the other for as long as there is one
RECURSIVE LeadingClosings(_)
LeadingClosings(content) ==
  IF content = <<>> THEN 0
  ELSE IF Head(content) \in ClosingTags \cup {"}"}
    THEN 1 + LeadingClosings(trimStart(Tail(content)))
  ELSE IF StartsWith(content, <<"@", "}">>)
    THEN 1 + LeadingClosings(trimStart(Slice(content, 3)))
  ELSE 0

HowMany(line, lexemes) == Cardinality({ i \in 1..Len(line) : line[i] \in lexemes })

\* a markup line: its content, or its content after a text-output prefix,
\* starts with a tag
MarkupLine(k) == JsOf(k) # <<>> /\ Head(JsOf(k)) \in TagChars \cup {HTML_COMMENT_OPEN}

\* the opens and closes of a line: its braces, and its tags when it is markup
Opens(states, k) ==
  countBraces(InputLines[k], states[k].inBlockComment).open
  + (IF MarkupLine(k) THEN HowMany(InputLines[k], OpeningTags) ELSE 0)

Closes(states, k) ==
  countBraces(InputLines[k], states[k].inBlockComment).close
  + (IF MarkupLine(k) THEN HowMany(InputLines[k], ClosingTags) ELSE 0)

\* line k is scanned outside an HTML comment and outside a raw tag
Ordinary(states, k) ==
  /\ states[k].inRawTag = NO_TAG
  /\ ~states[k].inComment
  /\ HowMany(InputLines[k], {HTML_COMMENT_OPEN}) = 0

\* the switch extra applies to line k of the main pass
MainExtra(states, k) ==
  LET st == states[k]
  IN /\ st.switchDepths # <<>>
     /\ st.level >= st.switchDepths[Len(st.switchDepths)]
     /\ st.caseIndentDepth # NULL_INDENT
     /\ ~(~MarkupLine(k) /\ StartsWord(k, {"case", "default"}))
     /\ ~( /\ ~MarkupLine(k)
           /\ ~DirectiveLine(k)
           /\ StartsWord(k, {"}"})
           /\ LevelAfter(states, k) < st.switchDepths[Len(st.switchDepths)] )

\* C19: the main pass gives a line the width max(0, L - c) units, plus the
\* switch extra, L being the level before the line and c the closing tags and
\* braces taken greedily at the start of its content; the level after the
\* line is max(0, L + opens - closes)
C19_MainPassWidths ==
  pc = "done" =>
    \A states \in { MainStates } :
      \A k \in 1..Len(InputLines) :
        ~InCapturedBlock(k) =>
          /\ AssignedWidth(k) =
               Max(0, states[k].level - LeadingClosings(ContentOf(k))) * env.indentSize
               + (IF MainExtra(states, k) THEN env.indentSize ELSE 0)
          /\ Ordinary(states, k) =>
               LevelAfter(states, k) =
                 Max(0, states[k].level + Opens(states, k) - Closes(states, k))

\* a line that starts with two closings is put two levels up, and a close in
\* the middle of a line lowers the next line only
C19_Witness ==
  /\ pc = "done"
  /\ env.indentSize > 0
  /\ \E k \in 1..Len(InputLines) :
       /\ ~InCapturedBlock(k)
       /\ LeadingClosings(ContentOf(k)) = 2
       /\ MainStates[k].level = 3
       /\ AssignedWidth(k) = env.indentSize
  /\ \E k \in 1..(Len(InputLines) - 1) :
       /\ ~InCapturedBlock(k)
       /\ LeadingClosings(ContentOf(k)) = 0
       /\ Closes(MainStates, k) = 1
       /\ AssignedWidth(k) = MainStates[k].level * env.indentSize
       /\ MainStates[k + 1].level = MainStates[k].level - 1

\* the lines of a pass, in order: those the main scan handles, and those of
\* a block
MainLines == SelectSeq([k \in 1..Len(InputLines) |-> k], LAMBDA k : ~InCapturedBlock(k))

BlockLines(block) == [i \in 1..(block.endLine - block.startLine + 1) |-> block.startLine + i]

\* the level of the block pass after line k
BlockLevelAfter(states, k) ==
  LET braces == countBraces(InputLines[k], states[k].inBlockComment)
  IN Max(0, states[k].level + braces.open - braces.close)

\* the switches open before line ks[j] of a pass, innermost last: the level
\* of the body of each, and whether one of its labels has been seen; before
\* and after give the level around each line
RECURSIVE OpenSwitches(_, _, _, _)
OpenSwitches(ks, j, before, after) ==
  IF j = 1 THEN <<>>
  ELSE
    LET k == ks[j - 1]
        open == OpenSwitches(ks, j - 1, before, after)
        marked == IF open # <<>> /\ StartsWord(k, {"case", "default"})
                    THEN [open EXCEPT ![Len(open)].labelled = TRUE]
                    ELSE open
        kept == SelectSeq(marked, LAMBDA s : after[k] >= s.body)
    IN IF StartsWord(k, {"switch"}) /\ HasBrace(k) /\ after[k] > before[k]
         THEN Append(kept, [body |-> after[k], labelled |-> FALSE])
         ELSE kept

\* line ks[j] lies in an open switch body where a label has been seen, and is
\* neither a label nor the closing-brace line that ends that switch
ExtraDue(ks, j, before, after) ==
  LET k == ks[j]
      open == OpenSwitches(ks, j, before, after)
  IN /\ ~StartsWord(k, {"case", "default"})
     /\ \E s \in 1..Len(open) :
          /\ open[s].labelled
          /\ ~(StartsWord(k, {"}"}) /\ after[k] < open[s].body)

\* what line ks[j] of the main pass got beyond the width of its level
MainSurplus(states, k) ==
  AssignedWidth(k)
  - Max(0, states[k].level - LeadingClosings(ContentOf(k))) * env.indentSize

\* the same for a line of a block: in the content indent of a text-output
\* line of a script or style block, in the width of any other line
BlockSurplus(block, states, k) ==
  IF block.tagName \in RAW_TAGS /\ TextOutputLine(k)
    THEN plan.razorTextContentIndents[k]
         - Max(0, DedentedLevel(states, k) - DedentedLevel(states, RunStart(block, k)))
           * env.indentSize
    ELSE AssignedWidth(k) - (BlockBase(block) + DedentedLevel(states, k) * env.indentSize)

\* C20: in the main pass and in the pass over each reindented block, at every
\* switch depth, a non-blank line gets one extra unit exactly when it lies in
\* an open switch body where a case/default label has been seen and is
\* neither a label nor the closing-brace line that ends that switch; it gets
\* nothing otherwise
C20_SwitchExtra ==
  pc = "done" =>
    /\ \A states \in { MainStates } :
         LET before == [k \in 1..Len(InputLines) |-> states[k].level]
             after == [k \in 1..Len(InputLines) |-> LevelAfter(states, k)]
         IN \A j \in 1..Len(MainLines) :
              ContentOf(MainLines[j]) # <<>> =>
                MainSurplus(states, MainLines[j]) =
                  IF ExtraDue(MainLines, j, before, after) THEN env.indentSize ELSE 0
    /\ options.adjustTextBlocks =>
         \A states \in { BlockStates } :
           LET before == [k \in 1..Len(InputLines) |-> states[k].level]
               after == [k \in 1..Len(InputLines) |-> BlockLevelAfter(states, k)]
           IN \A b \in 1..Len(plan.textBlocks) :
                LET block == plan.textBlocks[b]
                IN Handled(block) =>
                     \A j \in 1..Len(BlockLines(block)) :
                       ContentOf(BlockLines(block)[j]) # <<>> =>
                         BlockSurplus(block, states, BlockLines(block)[j]) =
                           IF ExtraDue(BlockLines(block), j, before, after)
                             THEN env.indentSize ELSE 0

\* the state of the main scan after line k
StateAfter(states, k) == IF k < Len(InputLines) THEN states[k + 1] ELSE scan

\* line k is scanned by the main pass: no capture and no raw tag is open
ScannedNormally(states, k) ==
  /\ ~states[k].inTextBlock
  /\ ~states[k].inRawBlock
  /\ states[k].inRawTag = NO_TAG

Elements ==
  { <<"<text>", "</text>">>, <<"<script>", "</script>">>, <<"<style>", "</style>">> }

\* line k opens an element and closes it further on
OneLineElement(k) ==
  \E e \in Elements :
    /\ JsOf(k) # <<>>
    /\ Head(JsOf(k)) = e[1]
    /\ \E i \in 2..Len(JsOf(k)) : JsOf(k)[i] = e[2]

\* C21: a line that opens a text, script or style tag and closes it on the
\* same line starts neither a capture nor raw-tag tracking, so that the line
\* after it is scanned by the main pass like the line itself.
C21_OneLineElement ==
  Succeeded =>
    \A states \in { MainStates } :
      \A k \in 1..Len(InputLines) :
        ScannedNormally(states, k) /\ OneLineElement(k)
          => /\ ~StateAfter(states, k).inTextBlock
             /\ ~StateAfter(states, k).inRawBlock
             /\ StateAfter(states, k).inRawTag = NO_TAG

\* what is left of a stack of levels when it is popped for as long as its top
\* is above a level
KeptDepths(stack, level) ==
  LET below == { j \in 1..Len(stack) : stack[j] <= level }
      n == IF below = {} THEN 0 ELSE CHOOSE j \in below : \A i \in below : i <= j
  IN SubSeq(stack, 1, n)

\* the code of a line: what follows its text-output prefix, nothing for a
\* directive line, the trimmed line otherwise
CodeOfLine(line) ==
  LET content == trimStart(line)
  IN IF StartsWith(content, RAZOR_TEXT) THEN trimStart(Slice(content, 3))
     ELSE IF content # <<>> /\ Head(content) = "@" THEN <<>>
     ELSE content

HeaderCode(code) ==
  /\ code # <<>>
  /\ Head(code) = "switch"
  /\ trimStart(Tail(code)) # <<>>
  /\ Head(trimStart(Tail(code))) = "("

\* the switch stack protocol over one line, from the state before it to the
\* state after it: onLine says that the line has an opening brace, atStart
\* that a brace at the start of the line takes up a pending switch
SwitchProtocol(before, after, code, onLine, atStart) ==
  LET header == HeaderCode(code)
      startsBrace == code # <<>> /\ Head(code) = "{"
      takesUp == ~header /\ before.pendingSwitch /\ startsBrace /\ atStart
      pushed == (header /\ onLine) \/ takesUp
      pending == IF header THEN ~onLine
                 ELSE IF ~before.pendingSwitch THEN FALSE
                 ELSE IF code = <<>> THEN TRUE
                 ELSE IF startsBrace THEN ~atStart
                 ELSE FALSE
  IN /\ after.switchDepths
          = KeptDepths(IF pushed THEN Append(before.switchDepths, after.level)
                       ELSE before.switchDepths,
                       after.level)
     /\ after.pendingSwitch = pending

\* a step of the main scan over a line that the scan handles itself
MainLineStep ==
  /\ pc = "scan"
  /\ scan.i < Len(env.lines)
  /\ scan'.i = scan.i + 1
  /\ plan'.desiredIndents[scan.i + 1] # NULL_INDENT

\* a step of the block pass over a line of a script or style block
RawLineStep ==
  /\ pc = "blocks"
  /\ blk.running
  /\ blk.isRawBlock
  /\ env.lineInfos[blk.lineIndex + 1].rest # <<>>

\* the opening braces that the brace scanner finds on a line
OpeningBraces(line, inBlockComment) == countBraces(line, inBlockComment).open

\* the opening braces that the main scan counts on the line it is at: none
\* inside a raw tag, none when the line ends inside a markup comment
CountedBraces ==
  IF scan.inRawTag # NO_TAG \/ scan'.inComment THEN 0
  ELSE OpeningBraces(env.lineInfos[scan.i + 1].rest, scan.inBlockComment)

\* C22 as stated: a header with an opening brace on its line pushes the
\* post-line level, a header without one leaves a pending switch, the next
\* line with code takes it up when it starts with '{' and cancels it when it
\* starts with anything else, lines without code leave it pending, and after
\* every line the stack is popped while the post-line level is under its top.
C22_SwitchStack ==
  [][ /\ MainLineStep =>
           SwitchProtocol(scan, scan', CodeOfLine(env.lines[scan.i + 1]),
             OpeningBraces(env.lineInfos[scan.i + 1].rest, scan.inBlockComment) > 0,
             TRUE)
      /\ RawLineStep =>
           SwitchProtocol(blk, blk', CodeOfLine(env.lines[blk.lineIndex + 1]),
             OpeningBraces(env.lineInfos[blk.lineIndex + 1].rest, blk.inBlockComment) > 0,
             TRUE) ]_vars

\* C22, amended: the protocol of C22 where a brace is a brace that the pass
\* counts on the line; a header whose brace is not counted leaves a pending
\* switch, and a line that starts with '{' on which no brace is counted
\* leaves the switch pending.
C22_CountedBraces ==
  [][ /\ MainLineStep =>
           SwitchProtocol(scan, scan', CodeOfLine(env.lines[scan.i + 1]),
             CountedBraces > 0, CountedBraces > 0)
      /\ RawLineStep =>
           \A found \in { OpeningBraces(env.lineInfos[blk.lineIndex + 1].rest,
                                         blk.inBlockComment) } :
             SwitchProtocol(blk, blk', CodeOfLine(env.lines[blk.lineIndex + 1]),
                            found > 0, found > 0) ]_vars

\* a document where a pending switch was taken up by a later line that starts
\* with a counted '{', and where a header inside a markup comment, its brace
\* not counted, left a pending switch
C22_Witness ==
  /\ Succeeded
  /\ \E states \in { MainStates } :
       /\ \E k \in 2..Len(InputLines) :
            /\ ~InCapturedBlock(k)
            /\ states[k].pendingSwitch
            /\ StartsWord(k, {"{"})
            /\ ~StateAfter(states, k).pendingSwitch
            /\ StateAfter(states, k).switchDepths
                 = Append(states[k].switchDepths, StateAfter(states, k).level)
       /\ \E k \in 1..Len(InputLines) :
            /\ ~InCapturedBlock(k)
            /\ HeaderCode(CodeOfLine(InputLines[k]))
            /\ HasBrace(k)
            /\ states[k].inComment
            /\ StateAfter(states, k).pendingSwitch
            /\ StateAfter(states, k).switchDepths = states[k].switchDepths

\* formatText at the end of the main scan
RECURSIVE AfterScan(_)
AfterScan(m) == IF m.pc # "scan" THEN m ELSE AfterScan(StepOp(m))

ScanEnd == AfterScan(Start(input, options))

\* line k holds the closing tag of an element
ContainsClose(k, tagName) ==
  \E i \in 1..Len(InputLines[k]) : InputLines[k][i] \in ClosingTagOf(tagName)

\* line k leaves the document-level state of the main scan as it finds it
LeavesState(states, k) ==
  /\ StateAfter(states, k).level = states[k].level
  /\ StateAfter(states, k).inComment = states[k].inComment
  /\ StateAfter(states, k).inBlockComment = states[k].inBlockComment
  /\ StateAfter(states, k).inRawTag = states[k].inRawTag
  /\ StateAfter(states, k).switchDepths = states[k].switchDepths
  /\ StateAfter(states, k).pendingSwitch = states[k].pendingSwitch
  /\ StateAfter(states, k).caseIndentDepth = states[k].caseIndentDepth

\* the line that opens a block, and the line that closes it
OpeningLine(block) == block.startLine

ClosingLine(block) == block.endLine + 2

\* C23: every recorded block covers exactly the lines strictly between its
\* opening-tag line and the first later line that holds its closing tag (the
\* lines up to the last one when the block is marked skip for want of a
\* closing tag); the opening and the closing line get their width from the
\* main pass; a captured line gets no width from the main pass and leaves the
\* nesting level, the comment flags and the switch stack as they are; the
\* recorded blocks are disjoint and in ascending order.
C23_Capture ==
  Succeeded =>
    \A states \in { MainStates } : \A end \in { ScanEnd } :
      /\ \A j \in 1..Len(plan.textBlocks) :
           LET block == plan.textBlocks[j]
           IN /\ OpeningLine(block) >= 1
              /\ JsOf(OpeningLine(block)) # <<>>
              /\ Head(JsOf(OpeningLine(block))) \in OpenPrefixed(block.tagName)
              /\ end.plan.desiredIndents[OpeningLine(block)] # NULL_INDENT
              /\ block.endLine >= block.startLine - 1
              /\ \A k \in LinesOf(block) : ~ContainsClose(k, block.tagName)
              /\ IF block.skip
                   THEN block.endLine + 1 = Len(InputLines)
                   ELSE /\ ClosingLine(block) <= Len(InputLines)
                        /\ ContainsClose(ClosingLine(block), block.tagName)
                        /\ end.plan.desiredIndents[ClosingLine(block)] # NULL_INDENT
              /\ j > 1 => ClosingLine(plan.textBlocks[j - 1]) <= OpeningLine(block)
      /\ \A k \in 1..Len(InputLines) :
           InCapturedBlock(k) => /\ end.plan.desiredIndents[k] = NULL_INDENT
                                 /\ LeavesState(states, k)

\* two recorded blocks, a text block and a script block, with captured lines
\* that hold a brace, a markup comment and a switch header
C23_Witness ==
  /\ Succeeded
  /\ Len(plan.textBlocks) = 2
  /\ plan.textBlocks[1].tagName = "text"
  /\ plan.textBlocks[2].tagName = "script"
  /\ \A j \in 1..2 : ~plan.textBlocks[j].skip
                     /\ plan.textBlocks[j].endLine >= plan.textBlocks[j].startLine
  /\ \E k \in LinesOf(plan.textBlocks[1]) : HeaderCode(CodeOfLine(InputLines[k]))
  /\ \E k \in LinesOf(plan.textBlocks[1]) : InputLines[k] = <<HTML_COMMENT_OPEN>>
  /\ \E k \in LinesOf(plan.textBlocks[2]) : HasBrace(k)

\* a recorded block has a real closing tag: the line after its last line
\* holds the closing tag of its element
ReallyClosed(block) ==
  /\ ClosingLine(block) <= Len(InputLines)
  /\ ContainsClose(ClosingLine(block), block.tagName)

\* C24 as stated: every recorded block either has endLine >= startLine and a
\* real closing tag, or is marked skip.
C24_RecordedBlocks ==
  Succeeded =>
    \A j \in 1..Len(plan.textBlocks) :
      \/ plan.textBlocks[j].skip
      \/ /\ plan.textBlocks[j].endLine >= plan.textBlocks[j].startLine
         /\ ReallyClosed(plan.textBlocks[j])

\* C24, amended: every recorded block either has a real closing tag and
\* endLine >= startLine - 1, the block being empty (endLine = startLine - 1)
\* when the closing line directly follows the opening line, or is marked skip.
C24_EmptyOrClosed ==
  Succeeded =>
    \A j \in 1..Len(plan.textBlocks) :
      \/ plan.textBlocks[j].skip
      \/ /\ plan.textBlocks[j].endLine >= plan.textBlocks[j].startLine - 1
         /\ ReallyClosed(plan.textBlocks[j])

\* an empty block with its closing tag and a block marked skip, both recorded
C24_Witness ==
  /\ Succeeded
  /\ \E j \in 1..Len(plan.textBlocks) :
       /\ ~plan.textBlocks[j].skip
       /\ plan.textBlocks[j].endLine = plan.textBlocks[j].startLine - 1
       /\ ReallyClosed(plan.textBlocks[j])
  /\ \E j \in 1..Len(plan.textBlocks) :
       /\ plan.textBlocks[j].skip
       /\ ~ReallyClosed(plan.textBlocks[j])

MultipleOfUnit(width) == width >= 0 /\ \E n \in 0..width : width = n * env.indentSize

\* line k gets its width from the main pass or from the block pass, as
\* opposed to a captured line that is given back its original width
Rewritten(k) ==
  \/ ~InCapturedBlock(k)
  \/ /\ env.adjustTextBlocks
     /\ \E j \in 1..Len(plan.textBlocks) :
          k \in LinesOf(plan.textBlocks[j]) /\ Handled(plan.textBlocks[j])

\* C25 as stated: every resolved entry of the indent plan is a non-negative
\* multiple of the indent unit.
C25_PlanMultiples ==
  \A k \in 1..Len(plan.desiredIndents) :
    plan.desiredIndents[k] # NULL_INDENT => MultipleOfUnit(plan.desiredIndents[k])

\* C25, amended: when formatText returns, every entry of the indent plan is
\* resolved and non-negative; the entry of a line that the main pass or the
\* block pass indents is a multiple of the indent unit, and the entry of a
\* captured line that is left as written is the leading width recorded for
\* the line, whatever it is.
C25_MultiplesOrOriginal ==
  pc = "done" =>
    \A k \in 1..Len(plan.desiredIndents) :
      /\ plan.desiredIndents[k] # NULL_INDENT
      /\ plan.desiredIndents[k] >= 0
      /\ IF Rewritten(k)
           THEN MultipleOfUnit(plan.desiredIndents[k])
           ELSE plan.desiredIndents[k] = env.lineInfos[k].leadingWidth

\* a plan with an entry that the main pass changed to a multiple of the unit
\* and with an original width that is no multiple of the unit
C25_Witness ==
  /\ Succeeded
  /\ env.indentSize = 4
  /\ \E k \in 1..Len(InputLines) :
       /\ Rewritten(k)
       /\ plan.desiredIndents[k] > 0
       /\ plan.desiredIndents[k] # env.lineInfos[k].leadingWidth
  /\ \E k \in 1..Len(InputLines) :
       /\ ~Rewritten(k)
       /\ plan.desiredIndents[k] = 1

BraceCount == [open |-> 0, close |-> 0, inBlockComment |-> FALSE]

\* the quote that a character opens or closes, if it is one
QuoteOf(char) ==
  CASE char = "'" -> "single"
    [] char = "\"" -> "double"
    [] char = BACKTICK -> "template"
    [] OTHER -> "code"

\* the braces of a line, from position i on, that lie in code: mode is
\* "code", "comment" (inside /* */) or the kind of the quoted region that
\* position i is in; nothing counts after a // marker, and inside a quoted
\* region a backslash takes the character after it with it
RECURSIVE BracesInCode(_, _, _, _)
BracesInCode(line, i, mode, found) ==
  IF i > Len(line) THEN [found EXCEPT !.inBlockComment = (mode = "comment")]
  ELSE
    LET two == IF i < Len(line) THEN <<line[i], line[i + 1]>> ELSE <<line[i]>>
    IN CASE mode = "comment" ->
              IF two = <<"*", "/">> THEN BracesInCode(line, i + 2, "code", found)
              ELSE BracesInCode(line, i + 1, mode, found)
         [] mode = "code" ->
              IF two = <<"/", "*">> THEN BracesInCode(line, i + 2, "comment", found)
              ELSE IF two = <<"/", "/">> THEN found
              ELSE IF line[i] = "{"
                THEN BracesInCode(line, i + 1, mode, [found EXCEPT !.open = @ + 1])
              ELSE IF line[i] = "}"
                THEN BracesInCode(line, i + 1, mode, [found EXCEPT !.close = @ + 1])
              ELSE BracesInCode(line, i + 1, QuoteOf(line[i]), found)
         [] OTHER ->
              IF line[i] = "\\" THEN BracesInCode(line, i + 2, mode, found)
              ELSE IF QuoteOf(line[i]) = mode
                THEN BracesInCode(line, i + 1, "code", found)
              ELSE BracesInCode(line, i + 1, mode, found)

\* the braces of a whole line: the quote state starts afresh, the comment
\* state is the one the line before left
BracesOfLine(line, inBlockComment) ==
  BracesInCode(line, 1, IF inBlockComment THEN "comment" ELSE "code", BraceCount)

HasEscape(line) == \E i \in 1..Len(line) : line[i] = "\\"

\* a line on which the main scan runs the brace scanner: a main-pass line
\* outside raw tags and markup comments
BraceScanned(states, k) ==
  /\ ~InCapturedBlock(k)
  /\ states[k].inRawTag = NO_TAG
  /\ ~stripHtmlComments(InputLines[k], states[k].inComment).inComment

\* C26: on a line without escape characters countBraces counts exactly the
\* braces that lie outside single-quoted, double-quoted and template regions,
\* outside /* */ comments and before any // marker; the comment state is
\* carried from a line to the next, in the main pass and in the block pass,
\* and the quote state starts afresh on every line.
C26_BracesInCode ==
  Succeeded =>
    \A states \in { MainStates } : \A inBlock \in { BlockStates } :
      /\ \A k \in 1..Len(InputLines) :
           (BraceScanned(states, k) /\ ~HasEscape(InputLines[k])) =>
             /\ countBraces(InputLines[k], states[k].inBlockComment)
                  = BracesOfLine(InputLines[k], states[k].inBlockComment)
             /\ StateAfter(states, k).inBlockComment
                  = BracesOfLine(InputLines[k], states[k].inBlockComment).inBlockComment
             /\ ~MarkupLine(k) =>
                  StateAfter(states, k).level
                    = Max(0, states[k].level
                             + BracesOfLine(InputLines[k], states[k].inBlockComment).open
                             - BracesOfLine(InputLines[k], states[k].inBlockComment).close)
      /\ \A j \in 1..Len(plan.textBlocks) :
           (env.adjustTextBlocks /\ Handled(plan.textBlocks[j])) =>
             \A k \in LinesOf(plan.textBlocks[j]) :
               (k + 1 \in LinesOf(plan.textBlocks[j])
                /\ InputLines[k] # <<>> /\ ~HasEscape(InputLines[k])) =>
                 /\ inBlock[k + 1].inBlockComment
                      = BracesOfLine(InputLines[k], inBlock[k].inBlockComment).inBlockComment
                 /\ inBlock[k + 1].level
                      = Max(0, inBlock[k].level
                               + BracesOfLine(InputLines[k], inBlock[k].inBlockComment).open
                               - BracesOfLine(InputLines[k], inBlock[k].inBlockComment).close)

\* a line that starts inside a block comment, closes it, and opens a string
\* with a brace in it: the brace is not counted, and the brace of the next
\* line is counted although the string was left open
C26_Witness ==
  /\ Succeeded
  /\ Len(InputLines) = 3
  /\ InputLines[2] = <<"*", "/", "\"", "{">>
  /\ InputLines[3] = <<"{">>
  /\ \E states \in { MainStates } :
       /\ states[2].inBlockComment
       /\ ~states[3].inBlockComment
       /\ states[3].level = 0
       /\ scan.level = 1

\* C27: inside a quoted string or template literal a backslash keeps the
\* character after it from toggling the quote: an escaped quote does not end
\* the string, and the braces that follow it inside the string are not
\* counted.
C27_EscapedQuotes ==
  Succeeded =>
    \A states \in { MainStates } :
      \A k \in 1..Len(InputLines) :
        (BraceScanned(states, k) /\ HasEscape(InputLines[k])) =>
          countBraces(InputLines[k], states[k].inBlockComment)
            = BracesOfLine(InputLines[k], states[k].inBlockComment)

\* a line without its markup-comment regions, and whether it ends inside one
RECURSIVE WithoutComments(_, _, _)
WithoutComments(line, inComment, kept) ==
  IF line = <<>> THEN [cleaned |-> kept, inComment |-> inComment]
  ELSE IF inComment
    THEN WithoutComments(Tail(line), Head(line) # HTML_COMMENT_CLOSE, kept)
  ELSE IF Head(line) = HTML_COMMENT_OPEN
    THEN WithoutComments(Tail(line), TRUE, kept)
  ELSE WithoutComments(Tail(line), FALSE, Append(kept, Head(line)))

\* the change of level due to the tags of a line: its opening tags less its
\* closing tags
TagDelta(line) == HowMany(line, OpeningTags) - HowMany(line, ClosingTags)

\* a markup line without braces that the main pass scans outside raw tags
TagLine(states, k) ==
  /\ ~InCapturedBlock(k)
  /\ states[k].inRawTag = NO_TAG
  /\ MarkupLine(k)
  /\ ~HasBrace(k)

\* C28: on a markup line the tags counted toward nesting are exactly the
\* opening and closing tags of the line without its markup-comment regions:
\* tags inside a comment region never change the level, tags outside it are
\* counted, also on the line where a comment that runs over several lines
\* opens and on the line where it closes.
C28_TagsOutsideComments ==
  Succeeded =>
    \A states \in { MainStates } :
      \A k \in 1..Len(InputLines) :
        TagLine(states, k) =>
          StateAfter(states, k).level
            = Max(0, states[k].level
                     + TagDelta(WithoutComments(InputLines[k], states[k].inComment,
                                                <<>>).cleaned))

\* validateOutput has been called on the lines of out.lines
Validated == pc \in {"return", "done"}

OriginalLines == [k \in 1..Len(env.lineInfos) |-> env.lineInfos[k].original]

\* the lines whose content differs from the original's once leading
\* whitespace is stripped and the two normalisations are applied
Mismatching(lines) ==
  { k \in 1..Len(lines) :
      k > Len(OriginalLines)
      \/ normalizeForValidation(OriginalLines[k]) # normalizeForValidation(lines[k]) }

Ascending(numbers) ==
  \A j \in 1..(Len(numbers) - 1) : numbers[j] < numbers[j + 1]

\* C30: without insertions validateOutput returns ok exactly when the two
\* lists have the same length and every pair is equal after stripping leading
\* whitespace and applying the two normalisations; on a content mismatch the
\* message lists exactly the numbers of the mismatching lines, from 1, in
\* ascending order.
C30_LockstepValidation ==
  (Validated /\ ~out.insertedBlankLines) =>
    /\ validation.ok <=> /\ Len(out.lines) = Len(OriginalLines)
                         /\ Mismatching(out.lines) = {}
    /\ Len(out.lines) # Len(OriginalLines) => validation.message = LINE_COUNT_CHANGED
    /\ (Len(out.lines) = Len(OriginalLines) /\ Mismatching(out.lines) # {}) =>
         /\ validation.message = ContentChanged(validation.message.lines)
         /\ Ascending(validation.message.lines)
         /\ { validation.message.lines[j] : j \in 1..Len(validation.message.lines) }
              = Mismatching(out.lines)

\* a validation without insertions that reports two mismatching lines, which
\* are not the first two
C30_Witness ==
  /\ Validated
  /\ ~out.insertedBlankLines
  /\ ~validation.ok
  /\ Len(validation.message.lines) = 2
  /\ validation.message.lines[1] > 1
  /\ validation.message.lines[2] > validation.message.lines[1] + 1

\* the lines of a list that are left when the lines numbered in dropped go
RECURSIVE Without(_, _, _)
Without(lines, dropped, k) ==
  IF k > Len(lines) THEN <<>>
  ELSE (IF k \in dropped THEN <<>> ELSE <<lines[k]>>) \o Without(lines, dropped, k + 1)

\* a list matches the original lines one-to-one, in order, under normalisation
MatchesOriginal(lines) ==
  /\ Len(lines) = Len(OriginalLines)
  /\ Mismatching(lines) = {}

BlankOrBare(lines) == { k \in 1..Len(lines) : IsBlankOrBarePrefix(lines[k]) }

\* C29: with insertions allowed validateOutput returns ok only if deleting
\* some blank or bare-prefix lines from the output leaves a list that matches
\* the original lines one-to-one, in order, under normalisation.
C29_InsertionsOnly ==
  (Validated /\ out.insertedBlankLines /\ validation.ok) =>
    \E dropped \in SUBSET BlankOrBare(out.lines) :
      MatchesOriginal(Without(out.lines, dropped, 1))

\* the block pass leaves its brace level, switch state and block-comment state
\* as they were between the two states
SameBlockState(before, after) ==
  /\ after.level = before.level
  /\ after.switchDepths = before.switchDepths
  /\ after.caseIndentDepth = before.caseIndentDepth
  /\ after.pendingSwitch = before.pendingSwitch
  /\ after.inBlockComment = before.inBlockComment

\* the blank lines of block that satisfy want
BlankLines(block, states, want(_, _)) ==
  { k \in LinesOf(block) : ContentOf(k) = <<>> /\ want(states, k) }

\* C31: in a reindented block an empty line gets the width 0 whatever the
\* brace level, leaves the brace level and the switch state as they were, and
\* ends the open run of text-output lines: a text-output line that follows it
\* starts a run at its own dedented level
C31_BlankBlockLines ==
  (Succeeded /\ options.adjustTextBlocks) =>
    \A states \in { BlockStates } :
      \A j \in 1..Len(plan.textBlocks) :
        LET block == plan.textBlocks[j]
        IN Handled(block) =>
             \A k \in BlankLines(block, states, LAMBDA s, n : TRUE) :
               /\ AssignedWidth(k) = 0
               /\ (k + 1 \in LinesOf(block)) =>
                    /\ SameBlockState(states[k], states[k + 1])
                    /\ states[k + 1].razorTextGroupBaseLevel = NULL_INDENT
                    /\ (block.tagName \in RAW_TAGS /\ TextOutputLine(k + 1)) =>
                         AssignedWidth(k + 1) =
                           BlockBase(block)
                           + DedentedLevel(states, k + 1) * env.indentSize

\* a script block with a blank line at level 1 that splits a run of
\* text-output lines, and one with a blank line between a switch header and
\* its brace
C31_Witness ==
  /\ Succeeded
  /\ options.adjustTextBlocks
  /\ \E j \in 1..Len(plan.textBlocks) :
       LET block == plan.textBlocks[j]
       IN /\ Handled(block)
          /\ \E k \in BlankLines(block, BlockStates, LAMBDA s, n : s[n].level > 0) :
               /\ k - 1 \in LinesOf(block)
               /\ k + 1 \in LinesOf(block)
               /\ TextOutputLine(k - 1)
               /\ TextOutputLine(k + 1)
               /\ BlockStates[k].razorTextGroupBaseLevel = 0
               /\ AssignedWidth(k + 1) > AssignedWidth(k - 1)
  /\ \E j \in 1..Len(plan.textBlocks) :
       LET block == plan.textBlocks[j]
       IN /\ Handled(block)
          /\ \E k \in BlankLines(block, BlockStates, LAMBDA s, n : s[n].pendingSwitch) :
               k + 1 \in LinesOf(block)

\* the rendered lines before which the final lines hold a line more, the
\* place after the last rendered line included
RECURSIVE InsertedBefore(_, _, _, _)
InsertedBefore(lines, rendered, i, j) ==
  IF i > Len(lines) THEN {}
  ELSE IF j <= Len(rendered) /\ lines[i] = rendered[j]
    THEN InsertedBefore(lines, rendered, i + 1, j + 1)
  ELSE {j} \cup InsertedBefore(lines, rendered, i + 1, j)

\* line k and the line before it are lines of one reindented script or style
\* block
AmongReindented(k) ==
  /\ options.adjustTextBlocks
  /\ \E j \in 1..Len(plan.textBlocks) :
       /\ Reindented(plan.textBlocks[j])
       /\ k - 1 \in LinesOf(plan.textBlocks[j])
       /\ k \in LinesOf(plan.textBlocks[j])

\* a break line directly followed by a label, on the lines k - 1 and k
BreakBeforeLabel(k) ==
  /\ k - 1 \in 1..Len(InputLines)
  /\ k \in 1..Len(InputLines)
  /\ StartsWord(k - 1, {"break"})
  /\ StartsWord(k, {"case", "default"})

\* the places where insertSwitchBlankLines inserts when line p is taken to
\* lie outside the script and style blocks
InsertedWithout(p) ==
  InsertedBefore(
    insertSwitchBlankLines(out.outputLines,
                           [plan.rawLineMeta EXCEPT ![p] = NO_META]).lines,
    out.outputLines, 1, 1)

\* C32: separators are inserted only among the lines of the script and style
\* blocks that were reindented, so a switch of the main document, of a text
\* block, of a preserved block or of a skipped block gets none; and the walk
\* forgets the break it has seen when it passes a line outside such a block
C32_SeparatorsInRawBlocksOnly ==
  Succeeded =>
    /\ \A k \in InsertedBefore(out.lines, out.outputLines, 1, 1) : AmongReindented(k)
    /\ \A p \in 1..Len(out.outputLines) :
         \A k \in InsertedWithout(p) : k # p /\ k # p + 1

\* a document with a separator in a reindented script block and a break line
\* directly followed by a label outside such a block
C32_Witness ==
  /\ Succeeded
  /\ InsertedBefore(out.lines, out.outputLines, 1, 1) # {}
  /\ \E k \in 1..Len(InputLines) : BreakBeforeLabel(k) /\ ~AmongReindented(k)
  /\ \E p \in 1..Len(out.outputLines) :
       Cardinality(InsertedWithout(p)) < Cardinality(SeparatorPlaces)

\* the rendered line k differs from the input line in more than its leading
\* whitespace
Reworded(k) == trimStart(out.outputLines[k]) # trimStart(InputLines[k])

\* C33: whatever the input and the options, the output that formatText
\* computes passes validateOutput, so the result carries no error and is the
\* computed output
C33_OutputPassesValidation ==
  /\ Validated => validation.ok
  /\ pc = "done" =>
       /\ ~result.hasError
       /\ result.error = NO_MESSAGE
       /\ result.output = out.output

\* a result with a separator inserted, a switch header respaced and a
\* text-output line respaced, under an indent unit other than 4
C33_Witness ==
  /\ pc = "done"
  /\ ~result.hasError
  /\ env.indentSize # 4
  /\ out.insertedBlankLines
  /\ \E k \in 1..Len(InputLines) :
       Reworded(k) /\ IsSwitchHead(ContentOf(k))
  /\ \E k \in 1..Len(InputLines) :
       Reworded(k) /\ plan.indentAfterRazorPrefix[k]

\* the name of the first tag of line k, the text-output prefix set aside
FirstTagName(k) == IF JsOf(k) = <<>> THEN NO_TAG ELSE TagName(Head(JsOf(k)))

\* the blocks captured so far, the one still open included
CapturedBlocks ==
  { plan.textBlocks[j] : j \in 1..Len(plan.textBlocks) }
  \cup (IF scan.inTextBlock \/ scan.inRawBlock THEN {scan.currentTextBlock} ELSE {})

\* C34: a capture is started only by a line whose first tag is named exactly
\* text, script or style: the line that opened a captured block starts with
\* the tag the block is named after, so a textarea line opens none
C34_ExactTagNames ==
  \A block \in CapturedBlocks :
    /\ OpeningLine(block) \in 1..Len(InputLines)
    /\ FirstTagName(OpeningLine(block)) = block.tagName

\* C35: whatever the number options.indentSize is, the indent unit formatText
\* works with is an integer of at least 1, a fraction between 0 and 1
\* included
C35_PositiveUnit ==
  /\ env.indentSize \in Nat
  /\ env.indentSize >= 1

\* the lines with a change record in the log
LoggedLines == { LineRecords[j].line : j \in 1..Len(LineRecords) }

\* C38: an input line that is empty or holds only whitespace comes out as an
\* empty line at every nesting level, so no returned line is made of
\* indentation alone, and no width change is logged for a line that was
\* empty in the input
C38_BlankLinesEmpty ==
  Succeeded =>
    /\ \A k \in 1..Len(InputLines) :
         ContentOf(k) = <<>> =>
           /\ out.outputLines[k] = <<>>
           /\ InputLines[k] = <<>> => k \notin LoggedLines
    /\ \A j \in 1..Len(ReturnedLines) :
         ReturnedLines[j] # <<>> => trim(ReturnedLines[j]) # <<>>

\* the structural tokens of a document without blocks and switches
StructuralOpen == {"<div>", "<span>", "{"}

StructuralClose == {"</div>", "</span>", "}"}

\* the token that closes an opening token
CloserOf(token) ==
  CASE token = "<div>" -> "</div>"
    [] token = "<span>" -> "</span>"
    [] OTHER -> "}"

\* the lexemes that make a line something else than text with structural
\* tokens: block tags, switch and label words, quotes, comments, escapes
NotPlain ==
  {"<text>", "</text>", "<script>", "</script>", "<style>", "</style>",
   "<textarea>", "</textarea>", "switch", "case", "default", "'", "\"", BACKTICK,
   "/", "*", "\\", HTML_COMMENT_OPEN, HTML_COMMENT_CLOSE}

\* the places of line k that hold a structural token
StructuralAt(k) ==
  { i \in 1..Len(InputLines[k]) : InputLines[k][i] \in StructuralOpen \cup StructuralClose }

\* line k holds at most one structural token; a closing token starts the
\* content of its line, and so does an opening tag when tagsFirst is asked
OneToken(k, tagsFirst) ==
  /\ \A i \in 1..Len(InputLines[k]) : InputLines[k][i] \notin NotPlain
  /\ Cardinality(StructuralAt(k)) <= 1
  /\ \A i \in StructuralAt(k) :
       LET token == InputLines[k][i]
       IN (token \in StructuralClose \/ (tagsFirst /\ token # "{"))
            => i = LeadingSpaces(InputLines[k]) + 1

\* the structural token of line k, or none
TokenOf(k) ==
  IF StructuralAt(k) = {} THEN NO_TAG
  ELSE InputLines[k][CHOOSE i \in StructuralAt(k) : TRUE]

\* the line that opened what each line closes (0 for the other lines), and
\* whether the tokens are balanced: stack holds the lines still open
RECURSIVE Nesting(_, _, _)
Nesting(k, stack, opener) ==
  IF k > Len(InputLines) THEN [ok |-> stack = <<>>, opener |-> opener]
  ELSE IF TokenOf(k) \in StructuralOpen
    THEN Nesting(k + 1, Append(stack, k), Append(opener, 0))
  ELSE IF TokenOf(k) \in StructuralClose
    THEN IF stack # <<>> /\ CloserOf(TokenOf(Top(stack))) = TokenOf(k)
           THEN Nesting(k + 1, SubSeq(stack, 1, Len(stack) - 1),
                        Append(opener, Top(stack)))
           ELSE [ok |-> FALSE, opener |-> opener]
  ELSE Nesting(k + 1, stack, Append(opener, 0))

\* in the balanced documents whose lines hold one token at most, each closing
\* line has the width of the line that opened it and the lines between them
\* a greater one
ClosingUnderOpening(tagsFirst) ==
  (pc = "done" /\ \A k \in 1..Len(InputLines) : OneToken(k, tagsFirst)) =>
    \A nest \in { Nesting(1, <<>>, <<>>) } :
      nest.ok =>
        \A k \in 1..Len(InputLines) :
          nest.opener[k] > 0 =>
            /\ AssignedWidth(k) = AssignedWidth(nest.opener[k])
            /\ \A j \in (nest.opener[k] + 1)..(k - 1) :
                 AssignedWidth(j) > AssignedWidth(k)

\* C36 as stated: in a document without blocks and switches, with balanced
\* tags and braces and at most one structural token on a line (an opening tag
\* or '{' anywhere, a closing tag or '}' at the start of the content), each
\* closing line has the width of its opening line and every line between
\* them a greater width
C36_ClosingUnderOpening == ClosingUnderOpening(FALSE)

\* C36 (amended): the same for the documents whose opening tags start the
\* content of their line as well
C36_MarkupLinesOnly == ClosingUnderOpening(TRUE)

\* a div that holds a brace pair with a line inside, all closed in order
C36_Witness ==
  /\ pc = "done"
  /\ \A k \in 1..Len(InputLines) : OneToken(k, TRUE)
  /\ Nesting(1, <<>>, <<>>).ok
  /\ \E k, j \in 1..Len(InputLines) :
       /\ TokenOf(k) = "</div>"
       /\ TokenOf(j) = "}"
       /\ Nesting(1, <<>>, <<>>).opener[k] > 0
       /\ Nesting(1, <<>>, <<>>).opener[k] < Nesting(1, <<>>, <<>>).opener[j]
       /\ Nesting(1, <<>>, <<>>).opener[j] + 1 < j
       /\ j < k
       /\ AssignedWidth(j) > 0

\* the input with the leading whitespace of every line taken away
WithoutLeading ==
  Join([k \in 1..Len(InputLines) |-> ContentOf(k)], splitLines(input).lineEnding)

\* no captured block of the document keeps its original widths: none is left
\* open or skipped, none is preserved, and the block pass is on when there is
\* a block at all
NoBlockLeftAlone ==
  /\ ~UnterminatedBlock
  /\ \A j \in 1..Len(plan.textBlocks) :
       /\ options.adjustTextBlocks
       /\ ~plan.textBlocks[j].skip
       /\ ~AmbiguousRemix(plan.textBlocks[j])

\* the result for the lines that satisfy want is the result for the same
\* lines without their leading whitespace
SameAsWithoutLeading(want(_)) ==
  (pc = "done" /\ NoBlockLeftAlone /\ \A k \in 1..Len(InputLines) : want(k)) =>
    result.output = formatText(WithoutLeading, options).output

\* C37: the result depends on the contents of the lines only: an input without
\* skipped, preserved or restored blocks gives the output of the input whose
\* lines have no leading whitespace, and so the output of every input that
\* differs from it in leading whitespace only
C37_ContentsOnly == SameAsWithoutLeading(LAMBDA k : TRUE)

\* the same for the inputs whose lines hold no carriage return
C37_WithoutCarriageReturn ==
  SameAsWithoutLeading(LAMBDA k : \A i \in 1..Len(InputLines[k]) : InputLines[k][i] # CR)

====
